---- MODULE Spec2Model ----
(***************************************************************************)
(* A model of the authentication flow engine of src/src/auth-user.ts:      *)
(* the TwitterUserAuth instance (handler registry, guest token, cookie     *)
(* jar), the login loop, the default subtask handlers and the flow         *)
(* transport executeFlowTask with its redactor sanitizeFlowRequest.        *)
(*                                                                         *)
(* JavaScript values are modelled as follows.  A leaf (string, number,     *)
(* undefined, null) is a TLA+ string; the three non-string leaves are the  *)
(* reserved strings Undefined, Null and NotAString.  An object is a        *)
(* function from its own keys to values (a missing key is missing from     *)
(* the DOMAIN), an array is a sequence.  Which keys hold leaves, arrays or *)
(* objects is fixed by the key's name (LeafKeys, ArrayKeys, OpaqueKeys).   *)
(***************************************************************************)
EXTENDS Integers, Sequences, FiniteSets, TLC

\* ------------------------------------------------------------------ bounds

\* Rate-limited (429) responses the server may give to one request.
Max429 == 2
\* Rate-limited (429) responses the server may give during one login.
MaxLogin429 == 1
\* Rounds of one login in which the server may queue a further subtask.
MaxRounds == 3
\* Calls of registerSubtaskHandler during one run.
MaxRegister == 1
\* isLoggedIn calls on one instance.
MaxVerifications == 1
\* logout calls in one run.
MaxLogouts == 1
\* Times cookies are loaded into the jar in one run.
MaxLoads == 1

\* ------------------------------------------------------------ JS values

Undefined == "(undefined)"
Null == "(null)"
\* A flow_token that is present but is not a string (typeof 'number').
NotAString == "(number 7)"

typeof(v) ==
  IF v = Undefined THEN "undefined"
  ELSE IF v = Null THEN "object"
  ELSE IF v = NotAString THEN "number"
  ELSE "string"

\* `v == null` / `v != null` of JavaScript: true of null and of undefined.
IsNullish(v) == v \in {Undefined, Null}

Has(o, k) == k \in DOMAIN o

\* Optional chaining on a leaf: o?.k, undefined when the key is missing.
Leaf(o, k) == IF Has(o, k) THEN o[k] ELSE Undefined

\* The object spread { ...o, k: v }.
Spread(o, k, v) == [j \in DOMAIN o \cup {k} |-> IF j = k THEN v ELSE o[j]]

\* String.prototype.slice(-6): the last six characters.  Strings of at most
\* six characters are returned whole; the longer strings of the model are
\* tabulated.
slice6(s) ==
  CASE s = "guest-0001" -> "t-0001"
    [] s = "flowtoken-C" -> "oken-C"
    [] OTHER -> s

\* ------------------------------------------------------------------ JSON

LeafKeys ==
  {"flow_token", "flow_name", "subtask_id", "password", "text", "link",
   "key", "result", "response", "value"}
ArrayKeys == {"subtask_inputs", "setting_responses"}
\* Keys whose values no operation of the model looks into.
OpaqueKeys == {"input_flow_data", "subtask_versions"}

RECURSIVE JsonObject(_)
\* JSON.stringify followed by JSON.parse on one object: a key whose value
\* is undefined is dropped, every other key is kept, nested values likewise.
JsonObject(o) ==
  [k \in {j \in DOMAIN o : j \in LeafKeys => o[j] # Undefined} |->
     IF k \in LeafKeys \cup OpaqueKeys THEN o[k]
     ELSE IF k \in ArrayKeys THEN [i \in 1..Len(o[k]) |-> JsonObject(o[k][i])]
     ELSE JsonObject(o[k])]

\* JSON.stringify(x): the text is modelled by the value it parses back to.
JsonStringify(x) == [json |-> JsonObject(x)]
JsonParse(s) == s.json

\* ------------------------------------------------------------- redactor

REDACTED == "[REDACTED]"

\* Lines 812-817: enter_password.password, when not null or undefined.
SanitizePassword(input) ==
  IF Has(input, "enter_password") /\ ~IsNullish(Leaf(input.enter_password, "password"))
  THEN Spread(input, "enter_password", Spread(input.enter_password, "password", REDACTED))
  ELSE input

\* SanitizeText with the enter_text branch left out.
SanitizeText_skipped(input) == input

\* Lines 819-824: enter_text.text, when not null or undefined.
SanitizeText(input) ==
  IF Has(input, "enter_text") /\ ~IsNullish(Leaf(input.enter_text, "text"))
  THEN Spread(input, "enter_text", Spread(input.enter_text, "text", REDACTED))
  ELSE input

\* Lines 830-842: one element of settings_list.setting_responses.
SanitizeSettingResponse(response) ==
  IF /\ Has(response, "response_data")
     /\ Has(response.response_data, "text_data")
     /\ ~IsNullish(Leaf(response.response_data.text_data, "result"))
  THEN Spread(response, "response_data",
         Spread(response.response_data, "text_data",
           Spread(response.response_data.text_data, "result", REDACTED)))
  ELSE response

\* Lines 826-845: settings_list.setting_responses, when present.
SanitizeSettings(input) ==
  IF Has(input, "settings_list") /\ Has(input.settings_list, "setting_responses")
  THEN Spread(input, "settings_list",
         Spread(input.settings_list, "setting_responses",
           [i \in 1..Len(input.settings_list.setting_responses) |->
              SanitizeSettingResponse(input.settings_list.setting_responses[i])]))
  ELSE input

\* Lines 809-848: the callback mapped over subtask_inputs.
SanitizeInput(input) == SanitizeSettings(SanitizeText(SanitizePassword(input)))

\* Line 806: the copy the redactor works on.
SanitizeClone(data) == JsonParse(JsonStringify(data))

\* sanitizeFlowRequest writing into its argument instead of a copy.
sanitizeFlowRequest_inPlace(data) ==
  LET out == IF Has(data, "subtask_inputs")
             THEN [data EXCEPT !.subtask_inputs =
                     [i \in 1..Len(@) |-> SanitizeInput(@[i])]]
             ELSE data
  IN  [returned |-> out, argument |-> out]

\* sanitizeFlowRequest(data), lines 805-852.  The function writes only to
\* `cloned`, a deep copy of its argument; the pair is the value it returns
\* and its argument as the caller finds it afterwards.
sanitizeFlowRequest(data) ==
  LET cloned == SanitizeClone(data)
      out == IF Has(cloned, "subtask_inputs")
             THEN [cloned EXCEPT !.subtask_inputs =
                     [i \in 1..Len(@) |-> SanitizeInput(@[i])]]
             ELSE cloned
  IN  [returned |-> out, argument |-> data]

\* describeFlowStage(data), lines 789-803.
describeFlowStage(data) ==
  IF Has(data, "flow_name")
  THEN [stage |-> "flow initialization", flow_name |-> data.flow_name]
  ELSE LET ids == IF Has(data, "subtask_inputs")
                  THEN [i \in 1..Len(data.subtask_inputs) |->
                          Leaf(data.subtask_inputs[i], "subtask_id")]
                  ELSE <<>>
           named == SelectSeq(ids, LAMBDA id : id \notin {Undefined, Null, ""})
       IN  IF Len(named) > 0
           THEN [stage |-> "subtask submission", ids |-> named]
           ELSE [stage |-> "unknown flow stage"]

\* ------------------------------------------------------------- requests

\* The Init request of initLogin, lines 402-455.
InitRequest ==
  [flow_name |-> "login",
   input_flow_data |->
     [flow_context |->
        [debug_overrides |-> <<>>, start_location |-> [location |-> "unknown"]]],
   subtask_versions |->
     [action_list |-> 2, alert_dialog |-> 1, app_download_cta |-> 1,
      check_logged_in_account |-> 1, choice_selection |-> 3,
      contacts_live_sync_permission_prompt |-> 0, cta |-> 7,
      email_verification |-> 2, end_flow |-> 1, enter_date |-> 1,
      enter_email |-> 2, enter_password |-> 5, enter_phone |-> 2,
      enter_recaptcha |-> 1, enter_text |-> 5, enter_username |-> 2,
      generic_urt |-> 3, in_app_notification |-> 1, interest_picker |-> 3,
      js_instrumentation |-> 1, menu_dialog |-> 1,
      notifications_permission_prompt |-> 2, open_account |-> 2,
      open_home_timeline |-> 1, open_link |-> 1, phone_verification |-> 4,
      privacy_options |-> 1, security_key |-> 3, select_avatar |-> 4,
      select_banner |-> 2, settings_list |-> 7, show_code |-> 1, sign_up |-> 2,
      sign_up_review |-> 4, tweet_selection_urt |-> 1, update_users |-> 1,
      upload_media |-> 1, user_recommendations_list |-> 4,
      user_recommendations_urt |-> 1, wait_spinner |-> 3, web_modal |-> 1]]

\* A continuation request with one subtask input.
Continuation(flowToken, input) ==
  [flow_token |-> flowToken, subtask_inputs |-> <<input>>]

\* handleJsInstrumentationSubtask, lines 464-475.
JsInstrumentationRequest(subtaskId, flowToken) ==
  Continuation(flowToken,
    [subtask_id |-> subtaskId,
     js_instrumentation |-> [response |-> "{}", link |-> "next_link"]])

\* handleEnterAlternateIdentifierSubtask (lines 484-495) and handleAcid
\* (lines 609-620) send the same payload.
EnterTextRequest(subtaskId, flowToken, text) ==
  Continuation(flowToken,
    [subtask_id |-> subtaskId,
     enter_text |-> [text |-> text, link |-> "next_link"]])

\* handleEnterUserIdentifierSSO, lines 504-522.
EnterUserIdentifierRequest(subtaskId, flowToken, username) ==
  Continuation(flowToken,
    [subtask_id |-> subtaskId,
     settings_list |->
       [setting_responses |->
          <<[key |-> "user_identifier",
             response_data |-> [text_data |-> [result |-> username]]]>>,
        link |-> "next_link"]])

\* handleEnterPassword, lines 531-542.
EnterPasswordRequest(subtaskId, flowToken, password) ==
  Continuation(flowToken,
    [subtask_id |-> subtaskId,
     enter_password |-> [password |-> password, link |-> "next_link"]])

\* handleAccountDuplicationCheck, lines 551-561.
AccountDuplicationRequest(subtaskId, flowToken) ==
  Continuation(flowToken,
    [subtask_id |-> subtaskId,
     check_logged_in_account |-> [link |-> "AccountDuplicationCheck_false"]])

\* handleTwoFactorAuthChallenge, lines 583-594 (the key order of enter_text
\* differs from EnterTextRequest; objects are compared by key and value).
TwoFactorRequest(subtaskId, flowToken, code) ==
  Continuation(flowToken,
    [subtask_id |-> subtaskId,
     enter_text |-> [link |-> "next_link", text |-> code]])

\* ------------------------------------------------------------ the server

\* Flow tokens the server issues; the third is longer than six characters.
FlowTokens == <<"tok-A", "tok-B", "flowtoken-C", "tok-D", "tok-E", "tok-F", "tok-G">>

DefaultSubtaskIds ==
  {"LoginJsInstrumentationSubtask", "LoginEnterUserIdentifierSSO",
   "LoginEnterAlternateIdentifierSubtask", "LoginEnterPassword",
   "AccountDuplicationCheck", "LoginTwoFactorAuthChallenge", "LoginAcid",
   "LoginSuccessSubtask"}

DenyLoginSubtask == "DenyLoginSubtask"

Subtask(id) == [subtask_id |-> id]

ApiErrors ==
  <<[code |-> 399, message |-> "Incorrect. Please try again."],
    [code |-> 32, message |-> "Could not authenticate you."]>>

\* A parsed JSON body {flow_token?, errors?, status?, subtasks?}: tok is a
\* leaf (Undefined: the key is missing), errs and subs are sets holding the
\* array of the key, empty when the key is missing.
FlowBody(tok, errs, subs) ==
  [k \in (IF tok = Undefined THEN {} ELSE {"flow_token"})
         \cup (IF typeof(tok) = "string" THEN {"status"} ELSE {})
         \cup (IF errs = {} THEN {} ELSE {"errors"})
         \cup (IF subs = {} THEN {} ELSE {"subtasks"}) |->
     CASE k = "flow_token" -> tok
       [] k = "status" -> "success"
       [] k = "errors" -> CHOOSE e \in errs : TRUE
       [] k = "subtasks" -> CHOOSE t \in subs : TRUE]

\* The body `null`, which flexParseJson returns as it is.
NullBody == [isNull |-> TRUE]

\* An HTTP response: status, the names of the cookies its Set-Cookie
\* headers carry, and the parsed body.
Response(status, cookies, body) ==
  [status |-> status, cookies |-> cookies, body |-> body]

\* Response.ok
Ok(res) == res.status >= 200 /\ res.status <= 299

\* ------------------------------------------------------------- results

Success(flow) == [status |-> "success", response |-> flow]
Failure(err) == [status |-> "error", err |-> err]

AuthenticationError(message) == [name |-> "AuthenticationError", message |-> message]
\* An Error raised by fetch (a network failure).
NetworkError == [name |-> "TypeError", message |-> [text |-> "fetch failed"]]
\* A value raised by fetch that is not an instance of Error.
NotAnError == [thrown |-> "not an Error"]
\* ApiError.fromResponse(res), line 728.
ApiError(res) == [name |-> "ApiError", message |-> [text |-> "Response status", status |-> res.status]]
\* Reading a property of null, line 733.
NullTypeError == [name |-> "TypeError", message |-> [text |-> "Cannot read properties of null"]]

\* FlowResult without the checks of the flow token.
FlowResult_noTokenCheck(flow) ==
  IF Has(flow, "errors") /\ Len(flow.errors) > 0
  THEN Failure(AuthenticationError(
         [text |-> "Authentication error (${code}): ${message}",
          code |-> flow.errors[1].code, message |-> flow.errors[1].message]))
  ELSE IF /\ Has(flow, "subtasks") /\ Len(flow.subtasks) > 0
          /\ flow.subtasks[1].subtask_id = DenyLoginSubtask
  THEN Failure(AuthenticationError([text |-> "Authentication error: DenyLoginSubtask"]))
  ELSE Success(flow)

\* FlowResult looking for DenyLoginSubtask only when errors is present.
FlowResult_denyNeedsErrors(flow) ==
  IF IsNullish(Leaf(flow, "flow_token"))
  THEN Failure(AuthenticationError([text |-> "flow_token not found."]))
  ELSE IF Has(flow, "errors") /\ Len(flow.errors) > 0
  THEN Failure(AuthenticationError(
         [text |-> "Authentication error (${code}): ${message}",
          code |-> flow.errors[1].code, message |-> flow.errors[1].message]))
  ELSE IF typeof(flow.flow_token) # "string"
  THEN Failure(AuthenticationError([text |-> "flow_token was not a string."]))
  ELSE IF /\ Has(flow, "errors")
          /\ Has(flow, "subtasks") /\ Len(flow.subtasks) > 0
          /\ flow.subtasks[1].subtask_id = DenyLoginSubtask
  THEN Failure(AuthenticationError([text |-> "Authentication error: DenyLoginSubtask"]))
  ELSE Success(flow)

\* FlowResult without the check for DenyLoginSubtask.
FlowResult_noDenyCheck(flow) ==
  IF IsNullish(Leaf(flow, "flow_token"))
  THEN Failure(AuthenticationError([text |-> "flow_token not found."]))
  ELSE IF Has(flow, "errors") /\ Len(flow.errors) > 0
  THEN Failure(AuthenticationError(
         [text |-> "Authentication error (${code}): ${message}",
          code |-> flow.errors[1].code, message |-> flow.errors[1].message]))
  ELSE IF typeof(flow.flow_token) # "string"
  THEN Failure(AuthenticationError([text |-> "flow_token was not a string."]))
  ELSE Success(flow)

\* Lines 742-786: the result of a parsed 2xx body that is an object.
FlowResult(flow) ==
  IF IsNullish(Leaf(flow, "flow_token"))
  THEN Failure(AuthenticationError([text |-> "flow_token not found."]))
  ELSE IF Has(flow, "errors") /\ Len(flow.errors) > 0
  THEN Failure(AuthenticationError(
         [text |-> "Authentication error (${code}): ${message}",
          code |-> flow.errors[1].code, message |-> flow.errors[1].message]))
  ELSE IF typeof(flow.flow_token) # "string"
  THEN Failure(AuthenticationError([text |-> "flow_token was not a string."]))
  ELSE IF /\ Has(flow, "subtasks") /\ Len(flow.subtasks) > 0
          /\ flow.subtasks[1].subtask_id = DenyLoginSubtask
  THEN Failure(AuthenticationError([text |-> "Authentication error: DenyLoginSubtask"]))
  ELSE Success(flow)

\* flow.subtasks?.map((task) => task.subtask_id)
SubtaskIdsOf(flow) ==
  IF Has(flow, "subtasks")
  THEN [i \in 1..Len(flow.subtasks) |-> flow.subtasks[i].subtask_id]
  ELSE <<>>

\* --------------------------------------------------------------- headers

\* TwitterGuestAuth.installTo: the bearer authorization and the Cookie
\* header re-emitted from the jar.
GuestInstallTo(hdrs, cookieJar) ==
  Spread(Spread(hdrs, "authorization", "Bearer"), "cookie", cookieJar)

\* TwitterUserAuth.installTo, lines 375-384.
installTo(hdrs, cookieJar) ==
  Spread(Spread(Spread(GuestInstallTo(hdrs, cookieJar),
    "x-twitter-auth-type", "OAuth2Session"),
    "x-twitter-active-user", "yes"),
    "x-twitter-client-language", "en")

\* Lines 663-686: the header set of one executeFlowTask call.
FlowHeaders(token, cookieJar) ==
  installTo(
    ("accept" :> "*/*") @@ ("accept-language" :> "en-US,en;q=0.9")
    @@ ("content-type" :> "application/json") @@ ("cache-control" :> "no-cache")
    @@ ("origin" :> "https://x.com") @@ ("pragma" :> "no-cache")
    @@ ("priority" :> "u=1, i") @@ ("referer" :> "https://x.com/")
    @@ ("sec-ch-ua" :> "\"Google Chrome\";v=\"135\", \"Not-A.Brand\";v=\"8\", \"Chromium\";v=\"135\"")
    @@ ("sec-ch-ua-mobile" :> "?0") @@ ("sec-ch-ua-platform" :> "\"Windows\"")
    @@ ("sec-fetch-dest" :> "empty") @@ ("sec-fetch-mode" :> "cors")
    @@ ("sec-fetch-site" :> "same-origin")
    @@ ("user-agent" :> "Mozilla/5.0 (Windows NT 10.0; Win64; x64) AppleWebKit/537.36 (KHTML, like Gecko) Chrome/135.0.0.0 Safari/537.36")
    @@ ("x-guest-token" :> token) @@ ("x-twitter-auth-type" :> "OAuth2Client")
    @@ ("x-twitter-active-user" :> "yes") @@ ("x-twitter-client-language" :> "en"),
    cookieJar)

\* Lines 642-645: the endpoint, with the flow name as query for an Init request.
TaskUrl(data) ==
  IF Has(data, "flow_name")
  THEN [url |-> "https://api.x.com/1.1/onboarding/task.json", flow_name |-> data.flow_name]
  ELSE [url |-> "https://api.x.com/1.1/onboarding/task.json"]

\* ----------------------------------------------------------------- state

VARIABLES
  \* the TwitterUserAuth instance
  subtaskHandlers,   \* Map<string, FlowSubtaskHandler>: subtask id -> handler name
  guestToken,        \* this.guestToken, Undefined when none is held
  jar,               \* this.jar: the names of the cookies it holds
  \* the frame of login()
  pc,                \* position in login
  credentials,       \* the credentials object of line 272
  next,              \* `next`, the latest FlowTokenResult
  lastSubtaskId,     \* `lastSubtaskId`, Null before the first round
  flowToken,         \* `flowToken`, captured by getFlowToken of the round
  handlerFrame,      \* the handler that is running, with its locals
  loginResult,       \* how login ended: resolved, or rejected with an error
  invocations,       \* every handler invocation of line 326, oldest first
  delays,            \* every setTimeout delay waited for, oldest first
  \* the frame of executeFlowTask()
  xpc,               \* position in executeFlowTask
  data,              \* its argument `data`
  onboardingTaskUrl,
  stageDescription,
  sanitizedPayload,
  headers,
  res,               \* the Response of the latest fetch
  ret,               \* how the call ended: a returned result or a raised error
  \* the world and the records kept of it
  log,               \* the lines written by log(), oldest first
  sends,             \* every fetch issued, oldest first
  responses,         \* every Response received, oldest first
  rateLimitCalls,    \* every invocation of this.onRateLimit, oldest first
  calls,             \* executeFlowTask calls started so far
  argument,          \* the request object as the caller built it
  left429,           \* rate-limited responses the server may still give
  registrations,     \* registerSubtaskHandler calls so far, oldest first
  verifications,     \* isLoggedIn calls so far, oldest first
  logouts,           \* logout calls so far, oldest first
  loads,             \* cookie sets loaded into the jar so far, oldest first
  operation,         \* the API operation that is running or has ended, with its locals
  logins,            \* two instances and two login attempts that run interleaved
  search             \* a tweet sequence, a query, and what the two searches returned

instanceVars == <<subtaskHandlers, guestToken, jar>>
loginVars == <<pc, credentials, next, lastSubtaskId, flowToken, handlerFrame, loginResult, invocations, delays>>
execVars == <<xpc, data, onboardingTaskUrl, stageDescription, sanitizedPayload, headers, res, ret>>
worldVars == <<log, sends, responses, rateLimitCalls, calls, argument, left429, registrations, verifications, logouts, loads, operation, logins, search>>
vars == <<instanceVars, loginVars, execVars, worldVars>>

NoResult == [status |-> "none"]
NoResponse == Response(0, {}, <<>>)
NoRet == [kind |-> "none"]
NoHandler == [name |-> "none"]
NoOperation == [name |-> "none", opc |-> "idle"]

\* No search was called.
NoSearch == [tweets |-> <<>>, query |-> <<>>, one |-> NoRet, many |-> NoRet]
Returned(result) == [kind |-> "return", result |-> result]
Thrown(error) == [kind |-> "throw", error |-> error]

\* The lines written by log() (lines 15-18), by their template and the
\* values interpolated into it.
Log(line) == log' = Append(log, line)

\* ------------------------------------------------------- executeFlowTask

\* A caller enters executeFlowTask(request).
Call(request) ==
  /\ xpc' = "entry"
  /\ data' = request
  /\ argument' = request
  /\ calls' = calls + 1
  /\ ret' = NoRet
  /\ res' = NoResponse
  /\ UNCHANGED <<onboardingTaskUrl, stageDescription, sanitizedPayload, headers>>

\* Lines 642-648: the URL, the stage description and the redacted copy.
executeFlowTask_sanitize ==
  /\ xpc = "entry"
  /\ onboardingTaskUrl' = TaskUrl(data)
  /\ stageDescription' = describeFlowStage(data)
  /\ sanitizedPayload' = sanitizeFlowRequest(data).returned
  /\ data' = sanitizeFlowRequest(data).argument
  /\ xpc' = "log"
  /\ UNCHANGED <<headers, res, ret, instanceVars, loginVars, worldVars>>

\* The request itself interpolated into the line.
LoggedPayload_raw == JsonStringify(data)

\* The payload interpolated into the line of lines 650-654.
LoggedPayload == JsonStringify(sanitizedPayload)

\* Lines 650-654.
executeFlowTask_log ==
  /\ xpc = "log"
  /\ Log([text |-> "Making POST request to ${url} for ${stage} with payload: ${payload}",
          call |-> calls, url |-> onboardingTaskUrl, stage |-> stageDescription,
          payload |-> LoggedPayload])
  /\ xpc' = "token"
  /\ UNCHANGED <<data, onboardingTaskUrl, stageDescription, sanitizedPayload, headers, res, ret>>
  /\ UNCHANGED <<instanceVars, loginVars, sends, responses, rateLimitCalls, calls, argument, left429, registrations, verifications, logouts, loads, operation, logins, search>>

\* Lines 656-686: the guest token is required; the headers are built once.
executeFlowTask_headers ==
  /\ xpc = "token"
  /\ IF IsNullish(guestToken)
     THEN /\ ret' = Thrown(AuthenticationError([text |-> "Authentication token is null or undefined."]))
          /\ xpc' = "done"
          /\ UNCHANGED headers
     ELSE /\ headers' = FlowHeaders(guestToken, jar)
          /\ xpc' = "fetch"
          /\ UNCHANGED ret
  /\ UNCHANGED <<data, onboardingTaskUrl, stageDescription, sanitizedPayload, res>>
  /\ UNCHANGED <<instanceVars, loginVars, worldVars>>

\* Lines 690-698: the parameters of one fetch.
FetchParameters ==
  [url |-> onboardingTaskUrl, credentials |-> "include", method |-> "POST",
   headers |-> headers, body |-> JsonStringify(data)]

\* Line 701: the request goes out.
executeFlowTask_fetch ==
  /\ xpc = "fetch"
  /\ sends' = Append(sends, [call |-> calls, fetchParameters |-> FetchParameters])
  /\ xpc' = "await"
  /\ UNCHANGED <<data, onboardingTaskUrl, stageDescription, sanitizedPayload, headers, res, ret>>
  /\ UNCHANGED <<instanceVars, loginVars, log, responses, rateLimitCalls, calls, argument, left429, registrations, verifications, logouts, loads, operation, logins, search>>

\* Line 701: fetch resolves with a Response drawn from Rs.
executeFlowTask_response(Rs) ==
  /\ xpc = "await"
  /\ \E r \in Rs :
       /\ r.status = 429 => left429 > 0
       /\ res' = r
       /\ responses' = Append(responses, [call |-> calls, response |-> r, jarBefore |-> jar])
       /\ left429' = IF r.status = 429 THEN left429 - 1 ELSE left429
  /\ xpc' = "cookies"
  /\ UNCHANGED <<data, onboardingTaskUrl, stageDescription, sanitizedPayload, headers, ret>>
  /\ UNCHANGED <<instanceVars, loginVars, log, sends, rateLimitCalls, calls, argument, registrations, verifications, logouts, loads, operation, logins, search>>

\* A variant that treats a network error like a rate-limited response: the
\* rate-limit strategy is invoked before the error is returned.
executeFlowTask_fetchError_backsOff ==
  /\ xpc = "await"
  /\ ret' = Returned(Failure(NetworkError))
  /\ rateLimitCalls' = Append(rateLimitCalls,
       [call |-> calls, fetchParameters |-> sends[Len(sends)].fetchParameters,
        response |-> res])
  /\ xpc' = "done"
  /\ UNCHANGED <<data, onboardingTaskUrl, stageDescription, sanitizedPayload, headers, res>>
  /\ UNCHANGED <<instanceVars, loginVars, log, sends, responses, calls, argument, left429, registrations, verifications, logouts, loads, operation, logins, search>>

\* Lines 702-710: fetch raises an Error, which is returned as a result.
executeFlowTask_fetchError ==
  /\ xpc = "await"
  /\ ret' = Returned(Failure(NetworkError))
  /\ xpc' = "done"
  /\ UNCHANGED <<data, onboardingTaskUrl, stageDescription, sanitizedPayload, headers, res>>
  /\ UNCHANGED <<instanceVars, loginVars, worldVars>>

\* Lines 703-705: fetch raises a value that is no Error, which is re-raised.
executeFlowTask_fetchThrow ==
  /\ xpc = "await"
  /\ ret' = Thrown(NotAnError)
  /\ xpc' = "done"
  /\ UNCHANGED <<data, onboardingTaskUrl, stageDescription, sanitizedPayload, headers, res>>
  /\ UNCHANGED <<instanceVars, loginVars, worldVars>>

\* updateCookieJar(jar, headers): the jar absorbs the Set-Cookie headers.
updateCookieJar(cookieJar, response) == cookieJar \cup response.cookies

\* A variant that updates the jar from 2xx responses only.
executeFlowTask_updateCookieJar_okOnly ==
  /\ xpc = "cookies"
  /\ jar' = IF Ok(res) THEN updateCookieJar(jar, res) ELSE jar
  /\ xpc' = "status"
  /\ UNCHANGED <<data, onboardingTaskUrl, stageDescription, sanitizedPayload, headers, res, ret>>
  /\ UNCHANGED <<subtaskHandlers, guestToken, loginVars, worldVars>>

\* A variant that updates the jar from the response of the first call only.
executeFlowTask_updateCookieJar_firstCallOnly ==
  /\ xpc = "cookies"
  /\ jar' = IF calls = 1 THEN updateCookieJar(jar, res) ELSE jar
  /\ xpc' = "status"
  /\ UNCHANGED <<data, onboardingTaskUrl, stageDescription, sanitizedPayload, headers, res, ret>>
  /\ UNCHANGED <<subtaskHandlers, guestToken, loginVars, worldVars>>

\* Line 713.
executeFlowTask_updateCookieJar ==
  /\ xpc = "cookies"
  /\ jar' = updateCookieJar(jar, res)
  /\ xpc' = "status"
  /\ UNCHANGED <<data, onboardingTaskUrl, stageDescription, sanitizedPayload, headers, res, ret>>
  /\ UNCHANGED <<subtaskHandlers, guestToken, loginVars, worldVars>>

\* The retry loop resending at once, without the rate-limit strategy.
executeFlowTask_rateLimit_noStrategy ==
  /\ xpc = "status"
  /\ res.status = 429
  /\ Log([text |-> "Rate limit hit, waiting before retrying...", call |-> calls])
  /\ xpc' = "fetch"
  /\ UNCHANGED <<data, onboardingTaskUrl, stageDescription, sanitizedPayload, headers, res, ret>>
  /\ UNCHANGED <<instanceVars, loginVars, sends, responses, rateLimitCalls, calls, argument, left429, registrations, verifications, logouts, loads, operation, logins, search>>

\* Lines 715-722: a 429 invokes the rate-limit strategy and loops.
executeFlowTask_rateLimit ==
  /\ xpc = "status"
  /\ res.status = 429
  /\ Log([text |-> "Rate limit hit, waiting before retrying...", call |-> calls])
  /\ rateLimitCalls' = Append(rateLimitCalls,
       [call |-> calls, fetchParameters |-> sends[Len(sends)].fetchParameters,
        response |-> res])
  /\ xpc' = "fetch"
  /\ UNCHANGED <<data, onboardingTaskUrl, stageDescription, sanitizedPayload, headers, res, ret>>
  /\ UNCHANGED <<instanceVars, loginVars, sends, responses, calls, argument, left429, registrations, verifications, logouts, loads, operation, logins, search>>

\* Lines 724-787: the final response becomes the result of the call.
executeFlowTask_finish ==
  /\ xpc = "status"
  /\ res.status # 429
  /\ xpc' = "done"
  /\ IF ~Ok(res)
     THEN /\ Log([text |-> "Flow task for ${stage} failed with status ${status}.",
                  call |-> calls, stage |-> stageDescription, status |-> res.status])
          /\ ret' = Returned(Failure(ApiError(res)))
     ELSE IF Has(res.body, "isNull")
     THEN /\ ret' = Thrown(NullTypeError)
          /\ UNCHANGED log
     ELSE /\ Log([text |-> "Flow task response for ${stage}: http=${status}, flow status=${flow.status}, flow token suffix=${suffix}, subtasks=${subtasks}.",
                  call |-> calls, stage |-> stageDescription, status |-> res.status,
                  flowStatus |-> IF Has(res.body, "status") THEN res.body.status ELSE "unknown",
                  suffix |-> IF typeof(Leaf(res.body, "flow_token")) = "string"
                             THEN slice6(res.body.flow_token) ELSE "missing",
                  subtasks |-> IF Has(res.body, "subtasks")
                               THEN [joined |-> SubtaskIdsOf(res.body)]
                               ELSE [joined |-> <<"none">>]])
          /\ ret' = Returned(FlowResult(res.body))
  /\ UNCHANGED <<data, onboardingTaskUrl, stageDescription, sanitizedPayload, headers, res>>
  /\ UNCHANGED <<instanceVars, loginVars, sends, responses, rateLimitCalls, calls, argument, left429, registrations, verifications, logouts, loads, operation, logins, search>>

\* -------------------------------------------------------------- registry

\* The handler methods bound by initializeDefaultHandlers, lines 213-243.
DefaultHandler(id) ==
  CASE id = "LoginJsInstrumentationSubtask" -> "handleJsInstrumentationSubtask"
    [] id = "LoginEnterUserIdentifierSSO" -> "handleEnterUserIdentifierSSO"
    [] id = "LoginEnterAlternateIdentifierSubtask" -> "handleEnterAlternateIdentifierSubtask"
    [] id = "LoginEnterPassword" -> "handleEnterPassword"
    [] id = "AccountDuplicationCheck" -> "handleAccountDuplicationCheck"
    [] id = "LoginTwoFactorAuthChallenge" -> "handleTwoFactorAuthChallenge"
    [] id = "LoginAcid" -> "handleAcid"
    [] id = "LoginSuccessSubtask" -> "handleSuccessSubtask"

\* The registry after the constructor, lines 197-202: a Map holds the keys
\* that were set and no others.
initializeDefaultHandlers == [id \in DefaultSubtaskIds |-> DefaultHandler(id)]

\* ------------------------------- two instances and two login attempts

LoginInstances == {"first", "second"}
LoginAttempts == {1, 2}

\* An instance after its constructor, lines 196-202; the jar keeps with
\* every cookie the attempt whose response set it.
NewInstance ==
  [subtaskHandlers |-> initializeDefaultHandlers, guestToken |-> Undefined, jar |-> <<>>]

\* The frame of a login that was not called yet: the locals of login and
\* of its executeFlowTask call, and what it has sent and received.
NoAttempt ==
  [on |-> "none", lpc |-> "idle", call |-> 0, body |-> <<>>, token |-> Undefined,
   res |-> NoResponse, next |-> NoResult, flowToken |-> Undefined,
   lastSubtaskId |-> Null, sent |-> <<>>, received |-> <<>>, rounds |-> <<>>]

NoLogins ==
  [instance |-> [i \in LoginInstances |-> NewInstance],
   attempt |-> [a \in LoginAttempts |-> NoAttempt]]

\* -------------------------------------------- the transport on its own

Credentials(username, password, email, twoFactorSecret) ==
  [username |-> username, password |-> password, email |-> email,
   twoFactorSecret |-> twoFactorSecret]

\* A request answering two subtasks at once.
TwoSecretsRequest ==
  [flow_token |-> "tok-A",
   subtask_inputs |->
     <<[subtask_id |-> "LoginEnterPassword",
        enter_password |-> [password |-> "hunter2", link |-> "next_link"]],
       [subtask_id |-> "LoginAcid",
        enter_text |-> [text |-> "a@example.com", link |-> "next_link"]]>>]

\* Requests a custom handler may pass to api.sendFlowRequest.
CustomRequests ==
  { [flow_token |-> "tok-A", subtask_inputs |-> <<>>],
    TwoSecretsRequest,
    Continuation("tok-A",
      [subtask_id |-> "ExampleSubtask",
       enter_password |-> [password |-> "hunter2"],
       enter_text |-> [text |-> "123456", link |-> Undefined],
       example_data |-> [value |-> "data", link |-> "next_link"]]),
    Continuation("tok-A",
      [subtask_id |-> "ExampleSubtask",
       settings_list |->
         [setting_responses |->
            <<[key |-> "user_identifier",
               response_data |-> [text_data |-> [result |-> "alice"]]],
              [key |-> "locale", response_data |-> [text_data |-> [result |-> Null]]],
              [key |-> "toggle", response_data |-> [boolean_data |-> [result |-> "true"]]],
              [key |-> "empty"]>>,
          link |-> "next_link"]]),
    Continuation("tok-A",
      [subtask_id |-> "ExampleSubtask", settings_list |-> [link |-> "next_link"]]),
    Continuation("tok-A",
      [subtask_id |-> "ExampleSubtask",
       enter_password |-> [password |-> Null, link |-> "next_link"]]),
    Continuation("tok-A", [enter_password |-> [link |-> "next_link"]]),
    Continuation(Undefined,
      [subtask_id |-> "", enter_text |-> [text |-> "", link |-> "next_link"]]) }

\* The requests of the default handlers for a few credentials.
HandlerRequests ==
  { JsInstrumentationRequest("LoginJsInstrumentationSubtask", "tok-A"),
    EnterUserIdentifierRequest("LoginEnterUserIdentifierSSO", "tok-A", "alice"),
    EnterPasswordRequest("LoginEnterPassword", "tok-B", "hunter2"),
    AccountDuplicationRequest("AccountDuplicationCheck", "tok-A"),
    EnterTextRequest("LoginAcid", "flowtoken-C", "a@example.com"),
    EnterTextRequest("LoginEnterAlternateIdentifierSubtask", "tok-A", Undefined),
    TwoFactorRequest("LoginTwoFactorAuthChallenge", "tok-A", "123456") }

TransportRequests == {InitRequest} \cup HandlerRequests \cup CustomRequests

\* The bodies of 2xx responses.
TransportBodies ==
  { FlowBody(tok, errs, subs) :
      tok \in {Undefined, Null, NotAString, "tok-B"},
      errs \in {{}, {<<>>}, {<<ApiErrors[1]>>}, {<<ApiErrors[2], ApiErrors[1]>>}},
      subs \in {{}, {<<>>}, {<<Subtask(DenyLoginSubtask)>>},
                {<<Subtask("LoginEnterPassword")>>},
                {<<Subtask(DenyLoginSubtask), Subtask("LoginEnterPassword")>>},
                {<<Subtask("LoginEnterPassword"), Subtask(DenyLoginSubtask)>>}} }
  \cup {NullBody}

TransportResponses ==
  { Response(200, {"ct0"}, b) : b \in TransportBodies }
  \cup { Response(st, c, <<>>) : st \in {429, 403}, c \in {{}, {"att"}} }

\* executeFlowTask called once, with any request, with or without a guest token.
FlowInit ==
  /\ subtaskHandlers = initializeDefaultHandlers
  /\ guestToken \in {Undefined, "guest-0001"}
  /\ jar \in {{}, {"guest_id"}}
  /\ pc = "idle"
  /\ credentials = Credentials(Undefined, Undefined, Undefined, Undefined)
  /\ next = NoResult
  /\ lastSubtaskId = Null
  /\ flowToken = Undefined
  /\ handlerFrame = NoHandler
  /\ loginResult = NoRet
  /\ invocations = <<>>
  /\ delays = <<>>
  /\ xpc = "entry"
  /\ data \in TransportRequests
  /\ argument = data
  /\ onboardingTaskUrl = [url |-> ""]
  /\ stageDescription = [stage |-> ""]
  /\ sanitizedPayload = <<>>
  /\ headers = <<>>
  /\ res = NoResponse
  /\ ret = NoRet
  /\ log = <<>>
  /\ sends = <<>>
  /\ responses = <<>>
  /\ rateLimitCalls = <<>>
  /\ calls = 1
  /\ left429 = Max429
  /\ registrations = <<>>
  /\ verifications = <<>>
  /\ logouts = <<>>
  /\ loads = <<>>
  /\ operation = NoOperation
  /\ logins = NoLogins
  /\ search = NoSearch

FlowNext ==
  \/ executeFlowTask_sanitize
  \/ executeFlowTask_log
  \/ executeFlowTask_headers
  \/ executeFlowTask_fetch
  \/ executeFlowTask_response(TransportResponses)
  \/ executeFlowTask_fetchError
  \/ executeFlowTask_fetchThrow
  \/ executeFlowTask_updateCookieJar
  \/ executeFlowTask_rateLimit
  \/ executeFlowTask_finish

SpecFlow == FlowInit /\ [][FlowNext]_vars

\* ----------------------------------------------------------------- login

\* The subtask of the first round instead of the latest.
AfterSubtask_firstRound ==
  IF Len(invocations) = 0 THEN "initialization" ELSE invocations[1].subtaskId

\* `x ?? 'initialization'` of lines 338 and 343.
AfterSubtask == IF lastSubtaskId = Null THEN "initialization" ELSE lastSubtaskId

\* The cookies initLogin resets, lines 388-400.
LegacyCookies ==
  {"twitter_ads_id", "ads_prefs", "_twitter_sess", "zipbox_forms_auth_token",
   "lang", "bouncer_reset_cookie", "twid", "twitter_ads_idb", "email_uid",
   "external_referer", "ct0", "aa_u", "__cf_bm"}

\* removeCookie, once for each name.
removeCookies(cookieJar) == cookieJar \ LegacyCookies

\* Guest tokens the guest activation endpoint may issue.
GuestTokens == {"guest-0001"}

\* Credentials login may be called with: everything given, or the two
\* required arguments alone.
CredentialChoices ==
  { Credentials("alice", "hunter2", "a@example.com", "JBSWY3DPEHPK3PXP"),
    Credentials("bob", "swordfish", Undefined, Undefined) }

\* Codes totp.generate() may return, depending on the time of the call.
TotpCodes == {"123456"}

\* login(username, password, email, twoFactorSecret) is called, line 264.
login_begin ==
  /\ pc = "idle"
  /\ xpc = "idle"
  /\ \E c \in CredentialChoices : credentials' = c
  /\ Log([text |-> "Refreshing guest token before starting login flow..."])
  /\ pc' = "updateGuestToken"
  /\ UNCHANGED <<next, lastSubtaskId, flowToken, handlerFrame, loginResult, invocations, delays>>
  /\ UNCHANGED <<instanceVars, execVars, sends, responses, rateLimitCalls, calls, argument, left429, registrations, verifications, logouts, loads, operation, logins, search>>

\* The two lines of lines 266-283, the first only with a guest token.
StartLines(token) ==
  (IF token \notin {Undefined, Null, ""}
   THEN <<[text |-> "Guest token refreshed (suffix: ${suffix}), proceeding with login flow...",
           suffix |-> slice6(token)]>>
   ELSE <<>>)
  \o <<[text |-> "Starting login flow for ${username} (email provided: ${email}, 2FA configured: ${2fa})",
        username |-> credentials.username,
        emailProvided |-> ~IsNullish(credentials.email),
        twoFactor |-> IF credentials.twoFactorSecret \notin {Undefined, Null, ""}
                      THEN "yes" ELSE "no"]>>

\* Lines 265-283: updateGuestToken() resolves with a fresh guest token.
login_updateGuestToken ==
  /\ pc = "updateGuestToken"
  /\ \E t \in GuestTokens :
       /\ guestToken' = t
       /\ log' = log \o StartLines(t)
  /\ pc' = "initLogin"
  /\ UNCHANGED <<subtaskHandlers, jar>>
  /\ UNCHANGED <<credentials, next, lastSubtaskId, flowToken, handlerFrame, loginResult, invocations, delays>>
  /\ UNCHANGED <<execVars, sends, responses, rateLimitCalls, calls, argument, left429, registrations, verifications, logouts, loads, operation, logins, search>>

\* A variant of initLogin that makes the Init request with the jar as it is.
initLogin_noPurge ==
  /\ pc = "initLogin"
  /\ jar' = jar
  /\ Call(InitRequest)
  /\ pc' = "init"
  /\ UNCHANGED <<subtaskHandlers, guestToken>>
  /\ UNCHANGED <<credentials, next, lastSubtaskId, flowToken, handlerFrame, loginResult, invocations, delays>>
  /\ UNCHANGED <<log, sends, responses, rateLimitCalls, left429, registrations, verifications, logouts, loads, operation, logins, search>>

\* initLogin, lines 386-456: the stale cookies go, the Init request is made.
initLogin ==
  /\ pc = "initLogin"
  /\ jar' = removeCookies(jar)
  /\ Call(InitRequest)
  /\ pc' = "init"
  /\ UNCHANGED <<subtaskHandlers, guestToken>>
  /\ UNCHANGED <<credentials, next, lastSubtaskId, flowToken, handlerFrame, loginResult, invocations, delays>>
  /\ UNCHANGED <<log, sends, responses, rateLimitCalls, left429, registrations, verifications, logouts, loads, operation, logins, search>>

\* The lines of lines 286-297 for the result of the Init request.
InitLines(result) ==
  <<[text |-> "Initial login flow response received with status: ${status}",
     resultStatus |-> result.status]>>
  \o (IF result.status = "success"
      THEN <<[text |-> "Initial subtasks queued: ${subtasks}; flow token suffix: ${suffix}",
              subtasks |-> IF Len(SubtaskIdsOf(result.response)) > 0
                           THEN [joined |-> SubtaskIdsOf(result.response)]
                           ELSE [joined |-> <<"none">>],
              suffix |-> slice6(Leaf(result.response, "flow_token"))]>>
      ELSE <<>>)

\* Lines 285-299: the Init request has ended.
login_initResult ==
  /\ pc = "init"
  /\ xpc = "done"
  /\ xpc' = "idle"
  /\ IF ret.kind = "throw"
     THEN /\ loginResult' = Thrown(ret.error)
          /\ pc' = "rejected"
          /\ UNCHANGED <<next, log>>
     ELSE /\ next' = ret.result
          /\ log' = log \o InitLines(ret.result)
          /\ pc' = "loop"
          /\ UNCHANGED loginResult
  /\ UNCHANGED <<credentials, lastSubtaskId, flowToken, handlerFrame, invocations, delays>>
  /\ UNCHANGED <<data, onboardingTaskUrl, stageDescription, sanitizedPayload, headers, res, ret>>
  /\ UNCHANGED <<instanceVars, sends, responses, rateLimitCalls, calls, argument, left429, registrations, verifications, logouts, loads, operation, logins, search>>

\* The loop condition of line 300.
LoopContinues ==
  /\ next.status = "success"
  /\ Has(next.response, "subtasks")
  /\ Len(next.response.subtasks) > 0

\* A lookup that falls back on the terminal handler for an id without entry.
HandlerFor_fallback(subtaskId) ==
  IF subtaskId \in DOMAIN subtaskHandlers THEN subtaskHandlers[subtaskId]
  ELSE "handleSuccessSubtask"

\* this.subtaskHandlers.get(subtaskId), line 309.
HandlerFor(subtaskId) ==
  IF subtaskId \in DOMAIN subtaskHandlers THEN subtaskHandlers[subtaskId] ELSE Undefined

\* The last queued subtask instead of the first.
HeadSubtaskId_last(response) == response.subtasks[Len(response.subtasks)].subtask_id

\* next.response.subtasks[0].subtask_id, line 307.
HeadSubtaskId(response) == response.subtasks[1].subtask_id

\* Lines 300-329: one round of the loop up to the call of the handler.
login_round ==
  /\ pc = "loop"
  /\ LoopContinues
  /\ LET token == Leaf(next.response, "flow_token")
         subtaskId == HeadSubtaskId(next.response)
         handler == HandlerFor(subtaskId)
         preparing == [text |-> "Preparing to handle subtask ${id}; queued subtasks: ${queued}; flow token suffix: ${suffix}",
                       id |-> subtaskId, queued |-> SubtaskIdsOf(next.response),
                       suffix |-> slice6(token)]
         handling == [text |-> "Handling subtask ${id} with flow token suffix: ${suffix}",
                      id |-> subtaskId, suffix |-> slice6(token)]
     IN  IF IsNullish(token)
         THEN /\ loginResult' = Thrown([name |-> "Error", message |-> [text |-> "flow_token not found."]])
              /\ pc' = "rejected"
              /\ UNCHANGED <<lastSubtaskId, flowToken, handlerFrame, invocations, log>>
         ELSE /\ flowToken' = token
              /\ lastSubtaskId' = subtaskId
              /\ IF handler # Undefined
                 THEN /\ log' = log \o <<preparing, handling>>
                      /\ handlerFrame' = [name |-> handler, subtaskId |-> subtaskId,
                                          attempts |-> 1, error |-> NoRet]
                      /\ invocations' = Append(invocations,
                           [handler |-> handler, subtaskId |-> subtaskId,
                            previousResponse |-> next.response])
                      /\ pc' = "handler"
                      /\ UNCHANGED loginResult
                 ELSE /\ log' = Append(log, preparing)
                      /\ loginResult' = Thrown([name |-> "Error",
                           message |-> [text |-> "Unknown subtask ${id}", id |-> subtaskId]])
                      /\ pc' = "rejected"
                      /\ UNCHANGED <<handlerFrame, invocations>>
  /\ UNCHANGED <<credentials, next, delays>>
  /\ UNCHANGED <<instanceVars, execVars, sends, responses, rateLimitCalls, calls, argument, left429, registrations, verifications, logouts, loads, operation, logins, search>>

\* A variant of the end of login that completes only after the terminal
\* subtask was handled.
login_finish_requiresSuccessSubtask ==
  /\ pc = "loop"
  /\ ~LoopContinues
  /\ IF next.status = "error"
     THEN /\ Log([text |-> "Login flow failed after subtask ${id} with error: ${message}",
                  id |-> AfterSubtask, message |-> next.err.message])
          /\ loginResult' = Thrown(AuthenticationError(
               [text |-> "Login flow failed after ${id}: ${message}",
                id |-> AfterSubtask, message |-> next.err.message]))
          /\ pc' = "rejected"
     ELSE IF lastSubtaskId # "LoginSuccessSubtask"
     THEN /\ loginResult' = Thrown(AuthenticationError(
               [text |-> "Login flow ended before LoginSuccessSubtask."]))
          /\ pc' = "rejected"
          /\ UNCHANGED log
     ELSE /\ Log([text |-> "Login flow completed successfully after subtask ${id}.",
                  id |-> AfterSubtask])
          /\ loginResult' = Returned("void")
          /\ pc' = "resolved"
  /\ UNCHANGED <<credentials, next, lastSubtaskId, flowToken, handlerFrame, invocations, delays>>
  /\ UNCHANGED <<instanceVars, execVars, sends, responses, rateLimitCalls, calls, argument, left429, registrations, verifications, logouts, loads, operation, logins, search>>

\* Lines 335-353: the loop has ended.
login_finish ==
  /\ pc = "loop"
  /\ ~LoopContinues
  /\ IF next.status = "error"
     THEN /\ Log([text |-> "Login flow failed after subtask ${id} with error: ${message}",
                  id |-> AfterSubtask, message |-> next.err.message])
          /\ loginResult' = Thrown(AuthenticationError(
               [text |-> "Login flow failed after ${id}: ${message}",
                id |-> AfterSubtask, message |-> next.err.message]))
          /\ pc' = "rejected"
     ELSE /\ Log([text |-> "Login flow completed successfully after subtask ${id}.",
                  id |-> AfterSubtask])
          /\ loginResult' = Returned("void")
          /\ pc' = "resolved"
  /\ UNCHANGED <<credentials, next, lastSubtaskId, flowToken, handlerFrame, invocations, delays>>
  /\ UNCHANGED <<instanceVars, execVars, sends, responses, rateLimitCalls, calls, argument, left429, registrations, verifications, logouts, loads, operation, logins, search>>

\* -------------------------------------------------------------- handlers

Running(name) == pc = "handler" /\ handlerFrame.name = name

\* A handler makes its request through executeFlowTask and awaits it.
HandlerCalls(request) ==
  /\ xpc = "idle"
  /\ Call(request)
  /\ pc' = "awaitHandler"
  /\ UNCHANGED <<credentials, next, lastSubtaskId, flowToken, handlerFrame, loginResult, invocations, delays>>
  /\ UNCHANGED <<instanceVars, log, sends, responses, rateLimitCalls, left429, registrations, verifications, logouts, loads, operation, logins, search>>

\* The flow token of the response that opened the first round.
getFlowToken_firstRound == Leaf(invocations[1].previousResponse, "flow_token")

\* api.getFlowToken(), line 328: the `flowToken` of the round.
getFlowToken == flowToken

\* Lines 458-476.
handleJsInstrumentationSubtask ==
  /\ Running("handleJsInstrumentationSubtask")
  /\ HandlerCalls(JsInstrumentationRequest(handlerFrame.subtaskId, getFlowToken))

\* Lines 478-496.
handleEnterAlternateIdentifierSubtask ==
  /\ Running("handleEnterAlternateIdentifierSubtask")
  /\ HandlerCalls(EnterTextRequest(handlerFrame.subtaskId, getFlowToken, credentials.email))

\* Lines 498-523.
handleEnterUserIdentifierSSO ==
  /\ Running("handleEnterUserIdentifierSSO")
  /\ HandlerCalls(EnterUserIdentifierRequest(handlerFrame.subtaskId, getFlowToken, credentials.username))

\* Lines 525-543.
handleEnterPassword ==
  /\ Running("handleEnterPassword")
  /\ HandlerCalls(EnterPasswordRequest(handlerFrame.subtaskId, getFlowToken, credentials.password))

\* Lines 545-562.
handleAccountDuplicationCheck ==
  /\ Running("handleAccountDuplicationCheck")
  /\ HandlerCalls(AccountDuplicationRequest(handlerFrame.subtaskId, getFlowToken))

\* Lines 603-621.
handleAcid ==
  /\ Running("handleAcid")
  /\ HandlerCalls(EnterTextRequest(handlerFrame.subtaskId, getFlowToken, credentials.email))

\* The handler of the example of lines 86-101, registered by a caller.
ExampleRequest(subtaskId, token) ==
  Continuation(token,
    [subtask_id |-> subtaskId,
     example_data |-> [value |-> "data", link |-> "next_link"]])

exampleHandler ==
  /\ Running("exampleHandler")
  /\ HandlerCalls(ExampleRequest(handlerFrame.subtaskId, getFlowToken))

\* Line 330.
CompletedLine(result) ==
  [text |-> "Subtask ${id} completed with status: ${status}",
   id |-> handlerFrame.subtaskId, resultStatus |-> result.status]

\* The handler has returned `result` to the loop, lines 326-330.
HandlerReturns(result) ==
  /\ next' = result
  /\ Log(CompletedLine(result))
  /\ handlerFrame' = NoHandler
  /\ pc' = "loop"
  /\ UNCHANGED loginResult

\* The handler has raised `error`, which login does not catch.
HandlerThrows(error) ==
  /\ loginResult' = Thrown(error)
  /\ handlerFrame' = NoHandler
  /\ pc' = "rejected"
  /\ UNCHANGED <<next, log>>

\* A handler that awaits one executeFlowTask call returns what the call
\* returns and raises what it raises.
handler_result ==
  /\ pc = "awaitHandler"
  /\ xpc = "done"
  /\ xpc' = "idle"
  /\ IF ret.kind = "return" THEN HandlerReturns(ret.result) ELSE HandlerThrows(ret.error)
  /\ UNCHANGED <<credentials, lastSubtaskId, flowToken, invocations, delays>>
  /\ UNCHANGED <<data, onboardingTaskUrl, stageDescription, sanitizedPayload, headers, res, ret>>
  /\ UNCHANGED <<instanceVars, sends, responses, rateLimitCalls, calls, argument, left429, registrations, verifications, logouts, loads, operation, logins, search>>

\* A terminal handler that reports the subtask to the server like the others.
handleSuccessSubtask_sends ==
  /\ Running("handleSuccessSubtask")
  /\ HandlerCalls(Continuation(getFlowToken, [subtask_id |-> handlerFrame.subtaskId]))

\* A variant of the terminal handler whose result carries no flow token.
handleSuccessSubtask_noToken ==
  /\ Running("handleSuccessSubtask")
  /\ HandlerReturns(Success([flow_token |-> Undefined, status |-> "success", subtasks |-> <<>>]))
  /\ UNCHANGED <<credentials, lastSubtaskId, flowToken, invocations, delays>>
  /\ UNCHANGED <<instanceVars, execVars, sends, responses, rateLimitCalls, calls, argument, left429, registrations, verifications, logouts, loads, operation, logins, search>>

\* Lines 623-637: no request is made.
handleSuccessSubtask ==
  /\ Running("handleSuccessSubtask")
  /\ HandlerReturns(Success([flow_token |-> getFlowToken, status |-> "success", subtasks |-> <<>>]))
  /\ UNCHANGED <<credentials, lastSubtaskId, flowToken, invocations, delays>>
  /\ UNCHANGED <<instanceVars, execVars, sends, responses, rateLimitCalls, calls, argument, left429, registrations, verifications, logouts, loads, operation, logins, search>>

\* A variant of the handler that submits a code whether or not the
\* credentials carry a secret.
handleTwoFactorAuthChallenge_noSeedCheck ==
  /\ Running("handleTwoFactorAuthChallenge")
  /\ xpc = "idle"
  /\ \E code \in TotpCodes :
       Call(TwoFactorRequest(handlerFrame.subtaskId, getFlowToken, code))
  /\ pc' = "awaitTwoFactor"
  /\ UNCHANGED <<next, handlerFrame, loginResult, log>>
  /\ UNCHANGED <<credentials, lastSubtaskId, flowToken, invocations, delays>>
  /\ UNCHANGED <<instanceVars, sends, responses, rateLimitCalls, left429, registrations, verifications, logouts, loads, operation, logins, search>>

\* Lines 564-594: without a secret the handler returns an Error; with one it
\* makes its first attempt.
handleTwoFactorAuthChallenge ==
  /\ Running("handleTwoFactorAuthChallenge")
  /\ IF credentials.twoFactorSecret \in {Undefined, Null, ""}
     THEN /\ HandlerReturns(Failure(AuthenticationError(
               [text |-> "Two-factor authentication is required but no secret was provided"])))
          /\ UNCHANGED <<execVars, calls, argument>>
     ELSE /\ xpc = "idle"
          /\ \E code \in TotpCodes :
               Call(TwoFactorRequest(handlerFrame.subtaskId, getFlowToken, code))
          /\ pc' = "awaitTwoFactor"
          /\ UNCHANGED <<next, handlerFrame, loginResult, log>>
  /\ UNCHANGED <<credentials, lastSubtaskId, flowToken, invocations, delays>>
  /\ UNCHANGED <<instanceVars, sends, responses, rateLimitCalls, left429, registrations, verifications, logouts, loads, operation, logins, search>>

\* A variant of the result step that takes a returned Error result for a
\* failed attempt, and waits and tries again as after a raised one.
handleTwoFactorAuthChallenge_result_retriesErrors ==
  /\ pc = "awaitTwoFactor"
  /\ xpc = "done"
  /\ xpc' = "idle"
  /\ IF ret.kind = "return" /\ ret.result.status = "success"
     THEN /\ HandlerReturns(ret.result)
          /\ UNCHANGED delays
     ELSE /\ handlerFrame' = [handlerFrame EXCEPT !.error =
               IF ret.kind = "throw" THEN Thrown(ret.error) ELSE Thrown(ret.result.err)]
          /\ delays' = Append(delays, 2000 * handlerFrame.attempts)
          /\ pc' = "sleepTwoFactor"
          /\ UNCHANGED <<next, loginResult, log>>
  /\ UNCHANGED <<credentials, lastSubtaskId, flowToken, invocations>>
  /\ UNCHANGED <<data, onboardingTaskUrl, stageDescription, sanitizedPayload, headers, res, ret>>
  /\ UNCHANGED <<instanceVars, sends, responses, rateLimitCalls, calls, argument, left429, registrations, verifications, logouts, loads, operation, logins, search>>

\* A variant of the result step that does not wait after the third
\* attempt, which no attempt follows.
handleTwoFactorAuthChallenge_result_noLastWait ==
  /\ pc = "awaitTwoFactor"
  /\ xpc = "done"
  /\ xpc' = "idle"
  /\ IF ret.kind = "return"
     THEN /\ HandlerReturns(ret.result)
          /\ UNCHANGED delays
     ELSE /\ handlerFrame' = [handlerFrame EXCEPT !.error = Thrown(ret.error)]
          /\ delays' = IF handlerFrame.attempts < 3
                       THEN Append(delays, 2000 * handlerFrame.attempts)
                       ELSE delays
          /\ pc' = "sleepTwoFactor"
          /\ UNCHANGED <<next, loginResult, log>>
  /\ UNCHANGED <<credentials, lastSubtaskId, flowToken, invocations>>
  /\ UNCHANGED <<data, onboardingTaskUrl, stageDescription, sanitizedPayload, headers, res, ret>>
  /\ UNCHANGED <<instanceVars, sends, responses, rateLimitCalls, calls, argument, left429, registrations, verifications, logouts, loads, operation, logins, search>>

\* Lines 583-598: an attempt has ended; a raised error is kept and the
\* handler sleeps for 2000 * attempts.
handleTwoFactorAuthChallenge_result ==
  /\ pc = "awaitTwoFactor"
  /\ xpc = "done"
  /\ xpc' = "idle"
  /\ IF ret.kind = "return"
     THEN /\ HandlerReturns(ret.result)
          /\ UNCHANGED delays
     ELSE /\ handlerFrame' = [handlerFrame EXCEPT !.error = Thrown(ret.error)]
          /\ delays' = Append(delays, 2000 * handlerFrame.attempts)
          /\ pc' = "sleepTwoFactor"
          /\ UNCHANGED <<next, loginResult, log>>
  /\ UNCHANGED <<credentials, lastSubtaskId, flowToken, invocations>>
  /\ UNCHANGED <<data, onboardingTaskUrl, stageDescription, sanitizedPayload, headers, res, ret>>
  /\ UNCHANGED <<instanceVars, sends, responses, rateLimitCalls, calls, argument, left429, registrations, verifications, logouts, loads, operation, logins, search>>

\* A variant of the retry step whose loop allows a fourth attempt.
handleTwoFactorAuthChallenge_retry_fourAttempts ==
  /\ pc = "sleepTwoFactor"
  /\ xpc = "idle"
  /\ IF handlerFrame.attempts + 1 < 5
     THEN /\ handlerFrame' = [handlerFrame EXCEPT !.attempts = @ + 1]
          /\ \E code \in TotpCodes :
               Call(TwoFactorRequest(handlerFrame.subtaskId, getFlowToken, code))
          /\ pc' = "awaitTwoFactor"
          /\ UNCHANGED <<loginResult>>
     ELSE /\ loginResult' = handlerFrame.error
          /\ handlerFrame' = NoHandler
          /\ pc' = "rejected"
          /\ UNCHANGED <<execVars, calls, argument>>
  /\ UNCHANGED <<credentials, next, lastSubtaskId, flowToken, invocations, delays>>
  /\ UNCHANGED <<instanceVars, log, sends, responses, rateLimitCalls, left429, registrations, verifications, logouts, loads, operation, logins, search>>

\* Lines 581 and 600: after the sleep, the next attempt, or the kept error
\* is raised when three attempts were made.
handleTwoFactorAuthChallenge_retry ==
  /\ pc = "sleepTwoFactor"
  /\ xpc = "idle"
  /\ IF handlerFrame.attempts + 1 < 4
     THEN /\ handlerFrame' = [handlerFrame EXCEPT !.attempts = @ + 1]
          /\ \E code \in TotpCodes :
               Call(TwoFactorRequest(handlerFrame.subtaskId, getFlowToken, code))
          /\ pc' = "awaitTwoFactor"
          /\ UNCHANGED <<loginResult>>
     ELSE /\ loginResult' = handlerFrame.error
          /\ handlerFrame' = NoHandler
          /\ pc' = "rejected"
          /\ UNCHANGED <<execVars, calls, argument>>
  /\ UNCHANGED <<credentials, next, lastSubtaskId, flowToken, invocations, delays>>
  /\ UNCHANGED <<instanceVars, log, sends, responses, rateLimitCalls, left429, registrations, verifications, logouts, loads, operation, logins, search>>

\* A registry that keeps the handler an id already has.
registerSubtaskHandler_ifAbsent(subtaskId, handler) ==
  /\ subtaskHandlers' = IF subtaskId \in DOMAIN subtaskHandlers THEN subtaskHandlers
                        ELSE Spread(subtaskHandlers, subtaskId, handler)
  /\ registrations' = Append(registrations,
       [subtaskId |-> subtaskId, handler |-> handler,
        before |-> subtaskHandlers, after |-> subtaskHandlers'])
  /\ UNCHANGED <<guestToken, jar, loginVars, execVars>>
  /\ UNCHANGED <<log, sends, responses, rateLimitCalls, calls, argument, left429, verifications, logouts, loads, operation, logins, search>>

\* registerSubtaskHandler(subtaskId, handler), lines 209-211: Map.set.
registerSubtaskHandler(subtaskId, handler) ==
  /\ subtaskHandlers' = Spread(subtaskHandlers, subtaskId, handler)
  /\ registrations' = Append(registrations,
       [subtaskId |-> subtaskId, handler |-> handler,
        before |-> subtaskHandlers, after |-> subtaskHandlers'])
  /\ UNCHANGED <<guestToken, jar, loginVars, execVars>>
  /\ UNCHANGED <<log, sends, responses, rateLimitCalls, calls, argument, left429, verifications, logouts, loads, operation, logins, search>>

\* ------------------------------------------------- the server of a login

ExampleSubtask == "ExampleSubtask"
UnknownSubtask == "LoginUnknownSubtask"

\* The order in which the server asks for subtasks: a later response asks
\* for a subtask further down the list.
ServerOrder ==
  <<"LoginJsInstrumentationSubtask", "LoginEnterUserIdentifierSSO",
    "LoginEnterAlternateIdentifierSubtask", "LoginEnterPassword",
    "AccountDuplicationCheck", "LoginTwoFactorAuthChallenge", "LoginAcid",
    ExampleSubtask, UnknownSubtask, "LoginSuccessSubtask">>

ServerPosition ==
  IF lastSubtaskId = Null THEN 0
  ELSE CHOOSE i \in 1..Len(ServerOrder) : ServerOrder[i] = lastSubtaskId

\* Once MaxRounds handlers have run, the server only ends the flow.
AllowedHeads ==
  IF Len(invocations) < MaxRounds
  THEN {ServerOrder[i] : i \in (ServerPosition + 1)..Len(ServerOrder)}
  ELSE {"LoginSuccessSubtask"} \ {lastSubtaskId}

\* Responses that queue a second subtask behind the head.
TwoQueues ==
  { <<Subtask("LoginEnterUserIdentifierSSO"), Subtask("LoginEnterPassword")>>,
    <<Subtask("LoginEnterPassword"), Subtask(DenyLoginSubtask)>>,
    <<Subtask(ExampleSubtask), Subtask("LoginSuccessSubtask")>>,
    <<Subtask(UnknownSubtask), Subtask("LoginSuccessSubtask")>> }

Queues ==
  {<<>>} \cup {<<Subtask(h)>> : h \in AllowedHeads}
  \cup {q \in TwoQueues : q[1].subtask_id \in AllowedHeads}

\* The server issues a new flow token with every response of a call.
FreshToken == FlowTokens[((calls - 1) % Len(FlowTokens)) + 1]

CookieNames == <<"guest_id", "att", "ct0", "kdt", "auth_token", "twid", "lang">>
FreshCookies == {CookieNames[((calls - 1) % Len(CookieNames)) + 1]}

\* The server rate-limits a login at its first request only; the retry of
\* every kind of request is exercised by SpecFlow.
RateLimited == IF calls = 1 THEN {Response(429, FreshCookies, <<>>)} ELSE {}

LoginResponses ==
  { Response(200, FreshCookies, FlowBody(FreshToken, {}, {q})) : q \in Queues }
  \cup { Response(200, FreshCookies, FlowBody(FreshToken, {}, {})),
         Response(200, FreshCookies, FlowBody(FreshToken, {<<ApiErrors[1]>>}, {})),
         Response(200, FreshCookies, FlowBody(Undefined, {<<>>}, {<<>>})),
         Response(200, FreshCookies, FlowBody(FreshToken, {}, {<<Subtask(DenyLoginSubtask)>>})),
         Response(403, FreshCookies, <<>>) }
  \cup RateLimited

\* Subtask ids a caller registers a handler for.
RegisterIds == {"LoginEnterPassword", ExampleSubtask, DenyLoginSubtask}
CustomHandlers == {"exampleHandler"}

\* ------------------------------------------------------ the specification

\* A TwitterUserAuth instance after its constructor, lines 199-202.
Init ==
  /\ subtaskHandlers = initializeDefaultHandlers
  /\ guestToken = Undefined
  /\ jar = {}
  /\ pc = "idle"
  /\ credentials = Credentials(Undefined, Undefined, Undefined, Undefined)
  /\ next = NoResult
  /\ lastSubtaskId = Null
  /\ flowToken = Undefined
  /\ handlerFrame = NoHandler
  /\ loginResult = NoRet
  /\ invocations = <<>>
  /\ delays = <<>>
  /\ xpc = "idle"
  /\ data = <<>>
  /\ argument = <<>>
  /\ onboardingTaskUrl = [url |-> ""]
  /\ stageDescription = [stage |-> ""]
  /\ sanitizedPayload = <<>>
  /\ headers = <<>>
  /\ res = NoResponse
  /\ ret = NoRet
  /\ log = <<>>
  /\ sends = <<>>
  /\ responses = <<>>
  /\ rateLimitCalls = <<>>
  /\ calls = 0
  /\ left429 = MaxLogin429
  /\ registrations = <<>>
  /\ verifications = <<>>
  /\ logouts = <<>>
  /\ loads = <<>>
  /\ operation = NoOperation
  /\ logins = NoLogins
  /\ search = NoSearch

register ==
  /\ pc = "idle"
  /\ Len(registrations) < MaxRegister
  /\ \E id \in RegisterIds, h \in CustomHandlers : registerSubtaskHandler(id, h)

Next ==
  \/ register
  \/ login_begin
  \/ login_updateGuestToken
  \/ initLogin
  \/ login_initResult
  \/ login_round
  \/ login_finish
  \/ handleJsInstrumentationSubtask
  \/ handleEnterAlternateIdentifierSubtask
  \/ handleEnterUserIdentifierSSO
  \/ handleEnterPassword
  \/ handleAccountDuplicationCheck
  \/ handleAcid
  \/ handleSuccessSubtask
  \/ handleTwoFactorAuthChallenge
  \/ handleTwoFactorAuthChallenge_result
  \/ handleTwoFactorAuthChallenge_retry
  \/ exampleHandler
  \/ handler_result
  \/ executeFlowTask_sanitize
  \/ executeFlowTask_log
  \/ executeFlowTask_headers
  \/ executeFlowTask_fetch
  \/ executeFlowTask_response(LoginResponses)
  \/ executeFlowTask_fetchError
  \/ executeFlowTask_fetchThrow
  \/ executeFlowTask_updateCookieJar
  \/ executeFlowTask_rateLimit
  \/ executeFlowTask_finish

Spec == Init /\ [][Next]_vars

\* ------------------------------------------------- the session lifecycle

\* How requestApi(url, auth, method) ends: it resolves with a failure, or
\* with the parsed body of a 2xx answer (an object with or without errors,
\* or null), or it raises.
RequestApiRaised == [raised |-> NotAnError]

VerifyResults ==
  { [success |-> FALSE],
    [success |-> TRUE, value |-> [screen_name |-> "alice"]],
    [success |-> TRUE, value |-> [errors |-> <<>>]],
    [success |-> TRUE, value |-> [errors |-> <<ApiErrors[2]>>]],
    [success |-> TRUE, value |-> NullBody],
    RequestApiRaised }

\* A variant that reports success for an answer that carries errors.
IsLoggedInValue_ignoresErrors(result) ==
  IF Has(result, "raised") THEN Thrown(result.raised)
  ELSE IF ~result.success THEN Returned("false")
  ELSE IF Has(result.value, "isNull") THEN Returned(Null)
  ELSE Returned("true")

\* Lines 246-255: what isLoggedIn makes of the result.  An error raised by
\* requestApi is not caught; `verify && !verify.errors?.length` is verify
\* itself when verify is null.
IsLoggedInValue(result) ==
  IF Has(result, "raised") THEN Thrown(result.raised)
  ELSE IF ~result.success THEN Returned("false")
  ELSE IF Has(result.value, "isNull") THEN Returned(Null)
  ELSE IF Has(result.value, "errors") /\ Len(result.value.errors) > 0
  THEN Returned("false")
  ELSE Returned("true")

\* isLoggedIn(), lines 245-256, called while no login is running: the
\* answer of the verification endpoint decides, no field of the instance is
\* read or written.
isLoggedIn ==
  /\ pc \in {"idle", "resolved", "rejected"}
  /\ xpc = "idle"
  /\ Len(verifications) < MaxVerifications
  /\ \E result \in VerifyResults :
       verifications' = Append(verifications,
         [during |-> pc, result |-> result, outcome |-> IsLoggedInValue(result)])
  /\ UNCHANGED <<instanceVars, loginVars, execVars>>
  /\ UNCHANGED <<log, sends, responses, rateLimitCalls, calls, argument, left429, registrations, logouts, loads, operation, logins, search>>

\* Cookies kept from an earlier session and loaded into the jar of a new
\* instance before it logs in.
StoredCookies == {"guest_id", "kdt", "ct0", "twid", "lang"}

loadCookies ==
  /\ pc = "idle"
  /\ xpc = "idle"
  /\ Len(loads) < MaxLoads
  /\ jar' = jar \cup StoredCookies
  /\ loads' = Append(loads, StoredCookies)
  /\ UNCHANGED <<subtaskHandlers, guestToken, loginVars, execVars>>
  /\ UNCHANGED <<log, sends, responses, rateLimitCalls, calls, argument, left429, registrations, verifications, logouts, operation, logins, search>>

\* TwitterGuestAuth.hasToken().
hasToken == ~IsNullish(guestToken)

\* How the request to the logout endpoint ends.
LogoutResults == { [success |-> FALSE], [success |-> TRUE], RequestApiRaised }

\* A variant of logout without the early return: the jar is replaced and
\* the token deleted whether or not a token was held.
logout_noEarlyReturn ==
  /\ pc \in {"idle", "resolved", "rejected"}
  /\ xpc = "idle"
  /\ Len(logouts) < MaxLogouts
  /\ IF ~hasToken
     THEN /\ logouts' = Append(logouts,
               [held |-> FALSE, requested |-> FALSE, outcome |-> Returned("void"),
                during |-> pc, jarBefore |-> jar, tokenBefore |-> guestToken,
                registryBefore |-> subtaskHandlers, sendsBefore |-> Len(sends)])
          /\ guestToken' = Undefined
          /\ jar' = {}
     ELSE \E result \in LogoutResults :
            /\ logouts' = Append(logouts,
                 [held |-> TRUE, requested |-> TRUE, endpoint |-> result,
                  outcome |-> Returned("void"),
                  during |-> pc, jarBefore |-> jar, tokenBefore |-> guestToken,
                  registryBefore |-> subtaskHandlers, sendsBefore |-> Len(sends)])
            /\ guestToken' = Undefined
            /\ jar' = {}
  /\ UNCHANGED <<subtaskHandlers, loginVars, execVars>>
  /\ UNCHANGED <<log, sends, responses, rateLimitCalls, calls, argument, left429, registrations, verifications, loads, operation, logins, search>>

\* A variant of logout that cleans up only after a request that did not
\* raise.
logout_cleanupUnlessRaised ==
  /\ pc \in {"idle", "resolved", "rejected"}
  /\ xpc = "idle"
  /\ Len(logouts) < MaxLogouts
  /\ IF ~hasToken
     THEN /\ logouts' = Append(logouts,
               [held |-> FALSE, requested |-> FALSE, outcome |-> Returned("void"),
                during |-> pc, jarBefore |-> jar, tokenBefore |-> guestToken,
                registryBefore |-> subtaskHandlers, sendsBefore |-> Len(sends)])
          /\ UNCHANGED <<guestToken, jar>>
     ELSE \E result \in LogoutResults :
            /\ logouts' = Append(logouts,
                 [held |-> TRUE, requested |-> TRUE, endpoint |-> result,
                  outcome |-> Returned("void"),
                  during |-> pc, jarBefore |-> jar, tokenBefore |-> guestToken,
                  registryBefore |-> subtaskHandlers, sendsBefore |-> Len(sends)])
            /\ guestToken' = IF Has(result, "raised") THEN guestToken ELSE Undefined
            /\ jar' = IF Has(result, "raised") THEN jar ELSE {}
  /\ UNCHANGED <<subtaskHandlers, loginVars, execVars>>
  /\ UNCHANGED <<log, sends, responses, rateLimitCalls, calls, argument, left429, registrations, verifications, loads, operation, logins, search>>

\* A variant of logout that also replaces the registry by an empty one.
logout_newRegistry ==
  /\ pc \in {"idle", "resolved", "rejected"}
  /\ xpc = "idle"
  /\ Len(logouts) < MaxLogouts
  /\ IF ~hasToken
     THEN /\ logouts' = Append(logouts,
               [held |-> FALSE, requested |-> FALSE, outcome |-> Returned("void"),
                during |-> pc, jarBefore |-> jar, tokenBefore |-> guestToken,
                registryBefore |-> subtaskHandlers, sendsBefore |-> Len(sends)])
          /\ UNCHANGED <<guestToken, jar, subtaskHandlers>>
     ELSE \E result \in LogoutResults :
            /\ logouts' = Append(logouts,
                 [held |-> TRUE, requested |-> TRUE, endpoint |-> result,
                  outcome |-> Returned("void"),
                  during |-> pc, jarBefore |-> jar, tokenBefore |-> guestToken,
                  registryBefore |-> subtaskHandlers, sendsBefore |-> Len(sends)])
            /\ guestToken' = Undefined
            /\ jar' = {}
            /\ subtaskHandlers' = [id \in {} |-> "none"]
  /\ UNCHANGED <<loginVars, execVars>>
  /\ UNCHANGED <<log, sends, responses, rateLimitCalls, calls, argument, left429, registrations, verifications, loads, operation, logins, search>>

\* logout(), lines 355-373, called while no login is running.  Without a
\* token it returns at once; with one it makes the request, keeps an error
\* the request raises to itself, and then deletes the token and replaces
\* the jar by a new one.
logout ==
  /\ pc \in {"idle", "resolved", "rejected"}
  /\ xpc = "idle"
  /\ Len(logouts) < MaxLogouts
  /\ IF ~hasToken
     THEN /\ logouts' = Append(logouts,
               [held |-> FALSE, requested |-> FALSE, outcome |-> Returned("void"),
                during |-> pc, jarBefore |-> jar, tokenBefore |-> guestToken,
                registryBefore |-> subtaskHandlers, sendsBefore |-> Len(sends)])
          /\ UNCHANGED <<guestToken, jar>>
     ELSE \E result \in LogoutResults :
            /\ logouts' = Append(logouts,
                 [held |-> TRUE, requested |-> TRUE, endpoint |-> result,
                  outcome |-> Returned("void"),
                  during |-> pc, jarBefore |-> jar, tokenBefore |-> guestToken,
                  registryBefore |-> subtaskHandlers, sendsBefore |-> Len(sends)])
            /\ guestToken' = Undefined
            /\ jar' = {}
  /\ UNCHANGED <<subtaskHandlers, loginVars, execVars>>
  /\ UNCHANGED <<log, sends, responses, rateLimitCalls, calls, argument, left429, registrations, verifications, loads, operation, logins, search>>

\* A server that asks for the password and then ends the flow, or ends it
\* at once, or refuses a request.
SessionResponses ==
  { r \in LoginResponses :
      /\ r.status \in {200, 403}
      /\ r.status = 200 =>
           /\ FlowResult(r.body).status = "success"
           /\ Has(r.body, "subtasks") =>
                \A i \in 1..Len(r.body.subtasks) :
                  r.body.subtasks[i].subtask_id \in {"LoginEnterPassword", "LoginSuccessSubtask"} }

SessionNext ==
  \/ isLoggedIn
  \/ loadCookies
  \/ logout
  \/ login_begin
  \/ login_updateGuestToken
  \/ initLogin
  \/ login_initResult
  \/ login_round
  \/ login_finish
  \/ handleEnterPassword
  \/ handleSuccessSubtask
  \/ handler_result
  \/ executeFlowTask_sanitize
  \/ executeFlowTask_log
  \/ executeFlowTask_headers
  \/ executeFlowTask_fetch
  \/ executeFlowTask_response(SessionResponses)
  \/ executeFlowTask_fetchError
  \/ executeFlowTask_updateCookieJar
  \/ executeFlowTask_finish

SpecSession == Init /\ [][SessionNext]_vars

\* ------------------------------------------- the registry over a session

\* registerSubtaskHandler is called after a login has ended.
register_afterLogin ==
  /\ pc \in {"resolved", "rejected"}
  /\ xpc = "idle"
  /\ Len(registrations) < MaxRegister
  /\ \E id \in RegisterIds, h \in CustomHandlers : registerSubtaskHandler(id, h)

\* Registrations, one login and logouts on one instance, in any order.
RegistryNext ==
  \/ register
  \/ register_afterLogin
  \/ logout
  \/ login_begin
  \/ login_updateGuestToken
  \/ initLogin
  \/ login_initResult
  \/ login_round
  \/ login_finish
  \/ handleEnterPassword
  \/ handleSuccessSubtask
  \/ exampleHandler
  \/ handler_result
  \/ executeFlowTask_sanitize
  \/ executeFlowTask_log
  \/ executeFlowTask_headers
  \/ executeFlowTask_fetch
  \/ executeFlowTask_response(SessionResponses)
  \/ executeFlowTask_fetchError
  \/ executeFlowTask_updateCookieJar
  \/ executeFlowTask_finish

SpecRegistry == Init /\ [][RegistryNext]_vars

\* ------------------------------------ operations that need a login

\* The operations that test isLoggedIn before they make their request.
OperationNames ==
  {"createTweet", "fetchLikedTweets", "fetchHomeTimeline", "fetchFollowingTimeline"}

\* Arguments the operations are called with.
OperationArguments(name) ==
  IF name = "createTweet"
  THEN { [text |-> "hello", darkRequest |-> d] : d \in {Undefined, "true"} }
  ELSE { [userId |-> "44196397", maxTweets |-> m, cursor |-> c] :
           m \in {50, 500}, c \in {Undefined, "", "cursor-1"} }

\* o?.k for a nested object: the empty object when the key is missing.
Sub(o, k) == IF Has(o, k) THEN o[k] ELSE <<>>

Min(a, b) == IF a < b THEN a ELSE b

\* new Error(message).
PlainError(text) == [name |-> "Error", message |-> [text |-> text]]

\* The message of the AuthenticationError each operation raises.
NotLoggedInError(name) ==
  AuthenticationError(
    [text |-> IF name = "createTweet" THEN "Scraper is not logged-in for creating tweets."
              ELSE IF name = "fetchLikedTweets"
              THEN "Scraper is not logged-in for fetching liked tweets."
              ELSE "Scraper is not logged-in for home timeline."])

\* MAX_HOME_TWEETS, timeline-home.ts line 16.
MAX_HOME_TWEETS == 100

\* The request each operation hands to requestApi.
OperationRequest(name, args) ==
  IF name = "createTweet"
  THEN [api |-> "CreateTweet", method |-> "POST", tweet_text |-> args.text,
        dark_request |-> IF IsNullish(args.darkRequest) THEN "false" ELSE args.darkRequest]
  ELSE IF name = "fetchLikedTweets"
  THEN [api |-> "UserLikedTweets", method |-> "GET", userId |-> args.userId,
        count |-> Min(args.maxTweets, 200),
        cursor |-> IF IsNullish(args.cursor) \/ args.cursor = "" THEN Undefined ELSE args.cursor]
  ELSE [api |-> "home.json", method |-> "GET",
        count |-> Min(args.maxTweets, MAX_HOME_TWEETS),
        cursor |-> IF IsNullish(args.cursor) \/ args.cursor = "" THEN Undefined ELSE args.cursor,
        timeline_type |-> IF name = "fetchHomeTimeline" THEN "home" ELSE "latest"]

\* The request of getTweet(id, auth).
TweetDetailRequest(id) == [api |-> "TweetDetail", method |-> "GET", focalTweetId |-> id]

RequestFailure == [success |-> FALSE, err |-> ApiError(Response(403, {}, <<>>))]

\* How requestApi ends for a timeline request.
TimelineResults ==
  { RequestApiRaised, RequestFailure,
    [success |-> TRUE, value |-> [tweets |-> <<"1001", "1002">>]] }

\* A created tweet as the response holds it; `parses` says whether
\* parseTimelineEntryItemContentRaw makes a Tweet of it.
TweetResults ==
  { [rest_id |-> "991", parses |-> TRUE],
    [rest_id |-> "991", parses |-> FALSE],
    [legacy |-> [id_str |-> "992"], parses |-> FALSE],
    [parses |-> FALSE] }

\* How requestApi ends for the CreateTweet request.
CreateTweetResults ==
  { RequestApiRaised, RequestFailure,
    [success |-> TRUE, value |-> [errors |-> <<[message |-> "Status is a duplicate."]>>]],
    [success |-> TRUE, value |-> [data |-> [create_tweet |-> [errors |-> <<[message |-> Undefined]>>]]]],
    [success |-> TRUE, value |-> [errors |-> <<>>]],
    [success |-> TRUE, value |->
       [data |-> [create_tweet |-> [tweet |-> [rest_id |-> "991", parses |-> TRUE]]]]],
    [success |-> TRUE, value |->
       [data |-> [create_tweet |->
          [tweet_results |-> [result |-> [parses |-> FALSE]],
           pending_tweet |-> [rest_id |-> "993"]]]]] }
  \cup { [success |-> TRUE, value |->
            [data |-> [create_tweet |-> [tweet_results |-> [result |-> t]]]]] :
         t \in TweetResults }

\* How requestApi ends for the TweetDetail request.
TweetDetailResults ==
  { RequestApiRaised, RequestFailure,
    [success |-> TRUE, value |-> NullBody],
    [success |-> TRUE, value |-> [tweets |-> <<"991", "992", "993">>]],
    [success |-> TRUE, value |-> [tweets |-> <<>>]] }

\* part_000 lines 538-564: the errors, the tweet result and the tweet id
\* of a CreateTweet response.
ResultErrors(value) ==
  LET errors == IF Has(value, "errors") THEN value.errors ELSE <<>>
      createTweetResult == Sub(Sub(value, "data"), "create_tweet")
  IN  IF Len(errors) > 0 THEN errors
      ELSE IF Has(createTweetResult, "errors") THEN createTweetResult.errors ELSE <<>>

TweetResult(value) ==
  LET createTweetResult == Sub(Sub(value, "data"), "create_tweet")
  IN  IF Has(Sub(createTweetResult, "tweet_results"), "result")
      THEN createTweetResult.tweet_results.result
      ELSE Sub(createTweetResult, "tweet")

TweetId(value) ==
  LET createTweetResult == Sub(Sub(value, "data"), "create_tweet")
      tweetResult == TweetResult(value)
  IN  IF ~IsNullish(Leaf(tweetResult, "rest_id")) THEN tweetResult.rest_id
      ELSE IF ~IsNullish(Leaf(Sub(tweetResult, "legacy"), "id_str"))
      THEN tweetResult.legacy.id_str
      ELSE Leaf(Sub(createTweetResult, "pending_tweet"), "rest_id")

\* One of the operations is called while no login is running.
operation_begin ==
  /\ pc \in {"idle", "resolved", "rejected"}
  /\ xpc = "idle"
  /\ operation.name = "none"
  /\ \E name \in OperationNames :
       \E args \in OperationArguments(name) :
         operation' = [name |-> name, args |-> args, opc |-> "isLoggedIn",
                       loggedIn |-> NoRet, requests |-> <<>>, results |-> <<>>,
                       outcome |-> NoRet]
  /\ UNCHANGED <<instanceVars, loginVars, execVars>>
  /\ UNCHANGED <<log, sends, responses, rateLimitCalls, calls, argument, left429, registrations, verifications, logouts, loads, logins, search>>

\* A variant of the guard that goes on to the request whatever isLoggedIn
\* returned.
operation_isLoggedIn_unchecked ==
  /\ operation.opc = "isLoggedIn"
  /\ \E result \in VerifyResults :
       LET loggedIn == IsLoggedInValue(result) IN
         IF loggedIn.kind = "throw"
         THEN operation' = [operation EXCEPT !.loggedIn = loggedIn, !.opc = "ended",
                                             !.outcome = Thrown(loggedIn.error)]
         ELSE operation' = [operation EXCEPT !.loggedIn = loggedIn, !.opc = "request"]
  /\ UNCHANGED <<instanceVars, loginVars, execVars>>
  /\ UNCHANGED <<log, sends, responses, rateLimitCalls, calls, argument, left429, registrations, verifications, logouts, loads, logins, search>>

\* `if (!(await auth.isLoggedIn())) throw new AuthenticationError(...)`:
\* part_000 lines 305-309 and 475-479, timeline-home.ts lines 73-75.  What
\* isLoggedIn raises is raised by the operation; a falsy value makes it
\* raise the AuthenticationError.
operation_isLoggedIn ==
  /\ operation.opc = "isLoggedIn"
  /\ \E result \in VerifyResults :
       LET loggedIn == IsLoggedInValue(result) IN
         IF loggedIn.kind = "throw"
         THEN operation' = [operation EXCEPT !.loggedIn = loggedIn, !.opc = "ended",
                                             !.outcome = Thrown(loggedIn.error)]
         ELSE IF loggedIn.result # "true"
         THEN operation' = [operation EXCEPT !.loggedIn = loggedIn, !.opc = "ended",
                                             !.outcome = Thrown(NotLoggedInError(operation.name))]
         ELSE operation' = [operation EXCEPT !.loggedIn = loggedIn, !.opc = "request"]
  /\ UNCHANGED <<instanceVars, loginVars, execVars>>
  /\ UNCHANGED <<log, sends, responses, rateLimitCalls, calls, argument, left429, registrations, verifications, logouts, loads, logins, search>>

\* What createTweet makes of the value of a successful CreateTweet request,
\* part_000 lines 538-585, up to the call of getTweet.
CreateTweetStep(value) ==
  IF Len(ResultErrors(value)) > 0
  THEN [opc |-> "ended",
        outcome |-> Thrown(PlainError(
          IF IsNullish(Leaf(ResultErrors(value)[1], "message"))
          THEN "Failed to create tweet." ELSE ResultErrors(value)[1].message))]
  ELSE IF TweetResult(value) = <<>>
  THEN [opc |-> "ended",
        outcome |-> Thrown(PlainError("Create tweet response did not contain a tweet result."))]
  ELSE IF IsNullish(TweetId(value)) \/ TweetId(value) = ""
  THEN [opc |-> "ended",
        outcome |-> Thrown(PlainError("Create tweet response did not include a tweet identifier."))]
  ELSE IF TweetResult(value).parses
  THEN [opc |-> "ended", outcome |-> Returned([id |-> TweetId(value)])]
  ELSE [opc |-> "getTweet", outcome |-> NoRet]

\* The request of the operation is made and has ended: part_000 lines
\* 324-339 and 525-585, timeline-home.ts lines 77-87.
operation_request ==
  /\ operation.opc = "request"
  /\ \E result \in (IF operation.name = "createTweet"
                    THEN CreateTweetResults ELSE TimelineResults) :
       LET sent == [operation EXCEPT
                      !.requests = Append(@, OperationRequest(operation.name, operation.args)),
                      !.results = Append(@, result)]
       IN  IF Has(result, "raised")
           THEN operation' = [sent EXCEPT !.opc = "ended", !.outcome = Thrown(result.raised)]
           ELSE IF ~result.success
           THEN operation' = [sent EXCEPT !.opc = "ended", !.outcome = Thrown(result.err)]
           ELSE IF operation.name = "createTweet"
           THEN operation' = [sent EXCEPT !.opc = CreateTweetStep(result.value).opc,
                                          !.outcome = CreateTweetStep(result.value).outcome]
           ELSE operation' = [sent EXCEPT !.opc = "ended",
                                          !.outcome = Returned(result.value)]
  /\ UNCHANGED <<instanceVars, loginVars, execVars>>
  /\ UNCHANGED <<log, sends, responses, rateLimitCalls, calls, argument, left429, registrations, verifications, logouts, loads, logins, search>>

\* createTweet could not parse the created tweet and fetches it with
\* getTweet: part_000 lines 580-585 and 588-615.
operation_getTweet ==
  /\ operation.opc = "getTweet"
  /\ \E result \in TweetDetailResults :
       LET id == TweetId(operation.results[1].value)
           sent == [operation EXCEPT
                      !.requests = Append(@, TweetDetailRequest(id)),
                      !.results = Append(@, result)]
           unparsed == Thrown(PlainError("Failed to parse created tweet result."))
       IN  IF Has(result, "raised")
           THEN operation' = [sent EXCEPT !.opc = "ended", !.outcome = Thrown(result.raised)]
           ELSE IF ~result.success
           THEN operation' = [sent EXCEPT !.opc = "ended", !.outcome = Thrown(result.err)]
           ELSE IF Has(result.value, "isNull")
           THEN operation' = [sent EXCEPT !.opc = "ended", !.outcome = unparsed]
           ELSE IF \E i \in 1..Len(result.value.tweets) : result.value.tweets[i] = id
           THEN operation' = [sent EXCEPT !.opc = "ended", !.outcome = Returned([id |-> id])]
           ELSE operation' = [sent EXCEPT !.opc = "ended", !.outcome = unparsed]
  /\ UNCHANGED <<instanceVars, loginVars, execVars>>
  /\ UNCHANGED <<log, sends, responses, rateLimitCalls, calls, argument, left429, registrations, verifications, logouts, loads, logins, search>>

OperationNext ==
  \/ operation_begin
  \/ operation_isLoggedIn
  \/ operation_request
  \/ operation_getTweet

SpecOperation == Init /\ [][OperationNext]_vars

\* --------------------------------------------- logins that interleave

\* The guest token the server gives to the updateGuestToken of an attempt.
IssuedGuestToken(a) == IF a = 1 THEN "guest-0001" ELSE "guest-0002"

\* The flow token of the response to the k-th request of an attempt.
IssuedFlowToken(a, k) ==
  <<<<"tok-1A", "tok-1B", "tok-1C">>, <<"tok-2A", "tok-2B", "tok-2C">>>>[a][k]

\* The subtask the server asks for in its k-th response to a login.
InterleavedScript ==
  <<"LoginEnterUserIdentifierSSO", "LoginEnterPassword", "LoginSuccessSubtask">>

\* The Set-Cookie headers of a response to an attempt: a cookie that
\* initLogin purges and one that it keeps.
AttemptCookies(a) == [n \in {"ct0", "att"} |-> a]

\* What the server may answer to the k-th request of an attempt.
InterleavedResponses(a, k) ==
  { Response(200, AttemptCookies(a),
             FlowBody(IssuedFlowToken(a, k), {}, {<<Subtask(InterleavedScript[k])>>})),
    Response(403, AttemptCookies(a), <<>>) }

AttemptCredentials(a) ==
  IF a = 1 THEN Credentials("alice", "hunter2", "a@example.com", "JBSWY3DPEHPK3PXP")
  ELSE Credentials("bob", "swordfish", Undefined, Undefined)

\* updateCookieJar(this.jar, res.headers), line 713, on a jar that keeps
\* with every cookie the attempt whose response set it.
storeCookies(cookieJar, response) ==
  [n \in DOMAIN cookieJar \cup DOMAIN response.cookies |->
     IF n \in DOMAIN response.cookies THEN response.cookies[n] ELSE cookieJar[n]]

\* removeCookie, lines 388-400, on such a jar.
purgeCookies(cookieJar) == [n \in DOMAIN cookieJar \ LegacyCookies |-> cookieJar[n]]

Attempt(a) == logins.attempt[a]
InstanceOf(a) == logins.instance[Attempt(a).on]

\* The frame of attempt a and the instance it runs on become these.
LoginsBecome(a, frame, inst) ==
  logins' = [instance |-> [logins.instance EXCEPT ![Attempt(a).on] = inst],
             attempt |-> [logins.attempt EXCEPT ![a] = frame]]

LoginsOnly ==
  /\ UNCHANGED <<instanceVars, loginVars, execVars>>
  /\ UNCHANGED <<log, sends, responses, rateLimitCalls, calls, argument, left429, registrations, verifications, logouts, loads, operation, search>>

\* The request a handler hands to api.sendFlowRequest.
HandlerRequest(handler, subtaskId, token, creds) ==
  CASE handler = "handleEnterUserIdentifierSSO" ->
         EnterUserIdentifierRequest(subtaskId, token, creds.username)
    [] handler = "handleEnterPassword" ->
         EnterPasswordRequest(subtaskId, token, creds.password)
    [] OTHER -> ExampleRequest(subtaskId, token)

\* Lines 639-686: executeFlowTask is entered with `body`, reads the guest
\* token of its instance and builds the headers, up to the await of
\* installTo.
EnterFlowTask(frame, inst, body) ==
  IF IsNullish(inst.guestToken)
  THEN [frame EXCEPT !.lpc = "rejected"]
  ELSE [frame EXCEPT !.lpc = "installTo", !.call = @ + 1, !.body = body,
                     !.token = inst.guestToken]

\* A variant of getFlowToken that reads a flow token kept on the instance:
\* the token of the latest response any login received on it.
RoundFlowToken_onInstance(a, frame) ==
  LET same == {b \in LoginAttempts : Attempt(b).on = frame.on /\ Len(Attempt(b).rounds) > 0}
      other == {b \in same : b # a}
  IN  IF other = {} THEN frame.flowToken
      ELSE LET b == CHOOSE x \in other : TRUE
           IN  Attempt(b).rounds[Len(Attempt(b).rounds)].flowToken

\* getFlowToken: () => flowToken, line 328: the constant of the round.
RoundFlowToken(a, frame) == frame.flowToken

\* login is called on an instance, lines 258-265.
interleaved_login(a) ==
  /\ Attempt(a).lpc = "idle"
  /\ \E i \in (IF a = 1 THEN {"first"} ELSE LoginInstances) :
       logins' = [logins EXCEPT !.attempt[a].on = i,
                                !.attempt[a].lpc = "updateGuestToken"]
  /\ LoginsOnly

\* updateGuestToken has stored a new guest token on the instance, line 265.
interleaved_updateGuestToken(a) ==
  /\ Attempt(a).lpc = "updateGuestToken"
  /\ LoginsBecome(a, [Attempt(a) EXCEPT !.lpc = "initLogin"],
                     [InstanceOf(a) EXCEPT !.guestToken = IssuedGuestToken(a)])
  /\ LoginsOnly

\* Lines 285 and 386-402: initLogin purges the jar and enters
\* executeFlowTask with the Init request.
interleaved_initLogin(a) ==
  /\ Attempt(a).lpc = "initLogin"
  /\ LET inst == [InstanceOf(a) EXCEPT !.jar = purgeCookies(@)]
     IN  LoginsBecome(a, EnterFlowTask(Attempt(a), inst, InitRequest), inst)
  /\ LoginsOnly

\* Lines 687-701: installTo has added the cookies of the jar to the
\* headers, and the request goes out.
interleaved_fetch(a) ==
  /\ Attempt(a).lpc = "installTo"
  /\ LoginsBecome(a,
       [Attempt(a) EXCEPT !.lpc = "await",
          !.sent = Append(@, [call |-> Attempt(a).call, body |-> Attempt(a).body,
                              guest |-> Attempt(a).token,
                              cookies |-> InstanceOf(a).jar])],
       InstanceOf(a))
  /\ LoginsOnly

\* Lines 701 and 713: fetch resolves and the jar absorbs the cookies.
interleaved_response(a) ==
  /\ Attempt(a).lpc = "await"
  /\ \E r \in InterleavedResponses(a, Attempt(a).call) :
       LoginsBecome(a,
         [Attempt(a) EXCEPT !.lpc = "result", !.res = r,
            !.received = Append(@, [call |-> Attempt(a).call, response |-> r])],
         [InstanceOf(a) EXCEPT !.jar = storeCookies(@, r)])
  /\ LoginsOnly

\* Lines 724-786 and 299-353: the call returns its result to login, which
\* ends or starts the next round: it takes the flow token of the result,
\* looks the head subtask up in the registry of its instance and calls the
\* handler, which returns at once (handleSuccessSubtask) or enters
\* executeFlowTask with its request.
interleaved_round(a) ==
  /\ Attempt(a).lpc = "result"
  /\ LET frame == Attempt(a)
         inst == InstanceOf(a)
         result == IF Ok(frame.res) THEN FlowResult(frame.res.body)
                   ELSE Failure(ApiError(frame.res))
         got == [frame EXCEPT !.next = result]
     IN  IF /\ result.status = "success"
            /\ Has(result.response, "subtasks")
            /\ Len(result.response.subtasks) > 0
         THEN LET token == Leaf(result.response, "flow_token")
                  subtaskId == result.response.subtasks[1].subtask_id
                  handler == IF subtaskId \in DOMAIN inst.subtaskHandlers
                             THEN inst.subtaskHandlers[subtaskId] ELSE Undefined
                  round == [got EXCEPT !.flowToken = token, !.lastSubtaskId = subtaskId,
                              !.rounds = Append(@, [subtaskId |-> subtaskId,
                                                    handler |-> handler,
                                                    flowToken |-> token,
                                                    registry |-> inst.subtaskHandlers])]
              IN  IF IsNullish(token) \/ handler = Undefined
                  THEN LoginsBecome(a, [got EXCEPT !.lpc = "rejected"], inst)
                  ELSE IF handler = "handleSuccessSubtask"
                  THEN LoginsBecome(a,
                         [round EXCEPT !.lpc = "resolved",
                            !.next = Success([flow_token |-> token, status |-> "success",
                                              subtasks |-> <<>>])],
                         inst)
                  ELSE LoginsBecome(a,
                         EnterFlowTask(round, inst,
                           HandlerRequest(handler, subtaskId, RoundFlowToken(a, round),
                                          AttemptCredentials(a))),
                         inst)
         ELSE LoginsBecome(a,
                [got EXCEPT !.lpc = IF result.status = "error" THEN "rejected"
                                    ELSE "resolved"],
                inst)
  /\ LoginsOnly

\* registerSubtaskHandler, lines 209-211, is called once on one of the
\* instances, at any time.
interleaved_register ==
  /\ \A i \in LoginInstances : logins.instance[i].subtaskHandlers = initializeDefaultHandlers
  /\ \E i \in LoginInstances :
       logins' = [logins EXCEPT !.instance[i].subtaskHandlers =
                    Spread(@, "LoginEnterPassword", "exampleHandler")]
  /\ LoginsOnly

InterleavedNext ==
  \/ interleaved_register
  \/ \E a \in LoginAttempts :
       \/ interleaved_login(a)
       \/ interleaved_updateGuestToken(a)
       \/ interleaved_initLogin(a)
       \/ interleaved_fetch(a)
       \/ interleaved_response(a)
       \/ interleaved_round(a)

SpecInterleaved == Init /\ [][InterleavedNext]_vars

\* ------------------------------------------------ searching a timeline

MaxTweets == 3

\* Tweets a timeline yields; username is an optional field of Tweet.
TimelineTweets ==
  { [id |-> "t1", isRetweet |-> "false", username |-> "alice"],
    [id |-> "t2", isRetweet |-> "true", username |-> "alice"],
    [id |-> "t3", isRetweet |-> "false"] }

TweetSequences == UNION {[1..n -> TimelineTweets] : n \in 0..MaxTweets}

\* TweetQuery, lines 122-124: a partial tweet, or a callback that returns a
\* boolean or a promise of one; `accepts` holds the ids of the tweets for
\* which the callback gives true.
TweetQueries ==
  { <<>>, [isRetweet |-> "false"], [username |-> "alice"],
    [isRetweet |-> "true", username |-> "alice"], [username |-> Undefined] }
  \cup { [callback |-> kind, accepts |-> ids] :
           kind \in {"sync", "async"}, ids \in SUBSET {"t1", "t2", "t3"} }

\* The values `matches` takes: a boolean, or a promise that resolves to one.
JsBoolean(b) == [type |-> "boolean", value |-> b]
JsPromise(b) == [type |-> "promise", value |-> b]

\* `await v`: the value a promise resolves to, or v itself.
Await(v) == JsBoolean(v.value)

\* The test of `if (matches)` and `if (!matches)`: an object is truthy.
Truthy(v) == v.type = "promise" \/ v.value

\* The result `null` of getTweetWhere.
NullTweet == [isNull |-> TRUE]

\* typeof query === 'function', lines 363 and 382.
isCallback(query) == Has(query, "callback")

\* query(tweet)
CallQuery(query, tweet) ==
  IF query.callback = "async" THEN JsPromise(tweet.id \in query.accepts)
  ELSE JsBoolean(tweet.id \in query.accepts)

\* Lines 395-400.
checkTweetMatches(tweet, options) ==
  JsBoolean(\A k \in DOMAIN options : Leaf(tweet, k) = options[k])

\* Lines 359-376: the first tweet whose `matches`, awaited for a callback,
\* is truthy, or null.
getTweetWhere(tweets, query) ==
  LET matches(tweet) == IF isCallback(query) THEN Await(CallQuery(query, tweet))
                        ELSE checkTweetMatches(tweet, query)
      hits == {i \in 1..Len(tweets) : Truthy(matches(tweets[i]))}
  IN  IF hits = {} THEN NullTweet
      ELSE tweets[CHOOSE i \in hits : \A j \in hits : i <= j]

\* Lines 378-393: the tweets whose `matches` is truthy, in order; the
\* value of a callback is tested as it was returned.
getTweetsWhere(tweets, query) ==
  LET matches(tweet) == IF isCallback(query) THEN CallQuery(query, tweet)
                        ELSE checkTweetMatches(tweet, query)
  IN  SelectSeq(tweets, LAMBDA tweet : Truthy(matches(tweet)))

SearchOnly ==
  /\ UNCHANGED <<instanceVars, loginVars, execVars>>
  /\ UNCHANGED <<log, sends, responses, rateLimitCalls, calls, argument, left429, registrations, verifications, logouts, loads, operation, logins>>

\* getTweetWhere is called on the timeline with the query.
search_getTweetWhere ==
  /\ search.one = NoRet
  /\ search' = [search EXCEPT !.one = Returned(getTweetWhere(search.tweets, search.query))]
  /\ SearchOnly

\* getTweetsWhere is called on the timeline with the query.
search_getTweetsWhere ==
  /\ search.many = NoRet
  /\ search' = [search EXCEPT !.many = Returned(getTweetsWhere(search.tweets, search.query))]
  /\ SearchOnly

SearchInit ==
  /\ subtaskHandlers = initializeDefaultHandlers
  /\ guestToken = Undefined
  /\ jar = {}
  /\ pc = "idle"
  /\ credentials = Credentials(Undefined, Undefined, Undefined, Undefined)
  /\ next = NoResult
  /\ lastSubtaskId = Null
  /\ flowToken = Undefined
  /\ handlerFrame = NoHandler
  /\ loginResult = NoRet
  /\ invocations = <<>>
  /\ delays = <<>>
  /\ xpc = "idle"
  /\ data = <<>>
  /\ argument = <<>>
  /\ onboardingTaskUrl = [url |-> ""]
  /\ stageDescription = [stage |-> ""]
  /\ sanitizedPayload = <<>>
  /\ headers = <<>>
  /\ res = NoResponse
  /\ ret = NoRet
  /\ log = <<>>
  /\ sends = <<>>
  /\ responses = <<>>
  /\ rateLimitCalls = <<>>
  /\ calls = 0
  /\ left429 = MaxLogin429
  /\ registrations = <<>>
  /\ verifications = <<>>
  /\ logouts = <<>>
  /\ loads = <<>>
  /\ operation = NoOperation
  /\ logins = NoLogins
  /\ \E tweets \in TweetSequences, query \in TweetQueries :
       search = [tweets |-> tweets, query |-> query, one |-> NoRet, many |-> NoRet]

SearchNext ==
  \/ search_getTweetWhere
  \/ search_getTweetsWhere

SpecSearch == SearchInit /\ [][SearchNext]_vars

\* ---------------------------------------------------- the current call

ThisCall(seq) == SelectSeq(seq, LAMBDA e : e.call = calls)
CallSends == ThisCall(sends)
CallResponses == ThisCall(responses)
CallRateLimits == ThisCall(rateLimitCalls)
CallLog == SelectSeq(log, LAMBDA l : Has(l, "call") /\ l.call = calls)
Count429(seq) == Cardinality({i \in 1..Len(seq) : seq[i].response.status = 429})

\* The call ended on a response that was not rate-limited.
EndedOnResponse ==
  /\ xpc = "done"
  /\ Len(CallResponses) > 0
  /\ CallResponses[Len(CallResponses)].response.status # 429
  /\ res = CallResponses[Len(CallResponses)].response

\* A 2xx final response whose body is an object.
EndedOnFlow == EndedOnResponse /\ Ok(res) /\ ~Has(res.body, "isNull")

ReturnedSuccess == ret.kind = "return" /\ ret.result.status = "success"
ReturnedError == ret.kind = "return" /\ ret.result.status = "error"

\* ------------------------------------------------------------------- C1

\* What a final response alone makes of the call.
OutcomeOf(r) ==
  IF ~Ok(r) THEN Returned(Failure(ApiError(r)))
  ELSE IF Has(r.body, "isNull") THEN Thrown(NullTypeError)
  ELSE Returned(FlowResult(r.body))

\* C1: when one request is answered by k >= 0 responses with status 429 and
\* then by one response that is not 429, the rate-limit strategy has been
\* invoked exactly k times, the request has been sent exactly k+1 times, every
\* send carried the same URL, headers and body, each invocation of the
\* strategy got the send and the response that triggered it, and the result
\* is the one the final response alone determines.
C1_RetryUntilNot429 ==
  EndedOnResponse =>
    LET k == Count429(CallResponses) IN
      /\ Len(CallResponses) = k + 1
      /\ Len(CallRateLimits) = k
      /\ Len(CallSends) = k + 1
      /\ \A i \in 1..Len(CallSends) :
           /\ CallSends[i].fetchParameters = CallSends[1].fetchParameters
           /\ CallSends[i].fetchParameters.url = TaskUrl(argument)
           /\ CallSends[i].fetchParameters.body = JsonStringify(argument)
      /\ \A i \in 1..k :
           /\ CallRateLimits[i].response = CallResponses[i].response
           /\ CallRateLimits[i].fetchParameters = CallSends[i].fetchParameters
      /\ ret = OutcomeOf(res)

\* Two 429 responses, then a success.
C1_Witness ==
  /\ EndedOnResponse
  /\ Count429(CallResponses) = 2
  /\ Len(CallSends) = 3
  /\ ReturnedSuccess

\* ------------------------------------------------------------------- C2

\* Every handler invoked so far is one of the eight defaults.
DrivenByDefaults ==
  \A k \in 1..Len(invocations) :
    invocations[k].handler \in {initializeDefaultHandlers[id] : id \in DefaultSubtaskIds}

IsSuccessResponse(r) ==
  /\ OutcomeOf(r).kind = "return"
  /\ OutcomeOf(r).result.status = "success"

\* The Success responses received before call c began, oldest first.
SuccessesBefore(c) ==
  SelectSeq(responses, LAMBDA e : e.call < c /\ IsSuccessResponse(e.response))

IsContinuation(send) == send.fetchParameters.body # JsonStringify(InitRequest)
SentToken(send) == Leaf(JsonParse(send.fetchParameters.body), "flow_token")

\* C2: during a login driven by the default handlers, every flow request
\* after the Init request carries as flow_token the flow_token of the most
\* recently received Success response; none carries an older token or none.
C2_ContinuationCarriesLatestToken ==
  DrivenByDefaults =>
    \A i \in 1..Len(sends) :
      IsContinuation(sends[i]) =>
        LET prior == SuccessesBefore(sends[i].call) IN
          /\ Len(prior) > 0
          /\ typeof(SentToken(sends[i])) = "string"
          /\ SentToken(sends[i]) = prior[Len(prior)].response.body.flow_token

\* The third continuation request of a login with the default handlers
\* carries the token of the third response, not one of the first two.
C2_Witness ==
  /\ DrivenByDefaults
  /\ Len(invocations) = 3
  /\ \E i \in 1..Len(sends) :
       /\ IsContinuation(sends[i])
       /\ sends[i].call = 4
       /\ SentToken(sends[i]) = FlowTokens[3]
       /\ SentToken(sends[i]) \notin {FlowTokens[1], FlowTokens[2]}

\* ------------------------------------------------------------------- C3

TokenIsString(flow) == Has(flow, "flow_token") /\ typeof(flow.flow_token) = "string"
NoErrors(flow) == ~Has(flow, "errors") \/ Len(flow.errors) = 0

HeadIsDeny(flow) ==
  /\ Has(flow, "subtasks") /\ Len(flow.subtasks) > 0
  /\ flow.subtasks[1].subtask_id = DenyLoginSubtask

\* C4: a parsed flow response whose first queued subtask is DenyLoginSubtask
\* yields an Error result, whether errors is absent, empty or non-empty; it
\* never yields Success.
C4_DenyIsError == (EndedOnFlow /\ HeadIsDeny(res.body)) => ReturnedError

\* DenyLoginSubtask at the head, a string flow_token and no errors key.
C4_Witness ==
  /\ EndedOnFlow /\ HeadIsDeny(res.body)
  /\ TokenIsString(res.body) /\ ~Has(res.body, "errors")
  /\ ReturnedError

\* ------------------------------------------------------------------- C5

\* C5 as stated: every 2xx flow response with a non-empty errors array yields
\* the authentication Error carrying the code and message of errors[0],
\* whatever the other fields are, an absent flow_token included.
C5_FirstErrorAlways ==
  (EndedOnFlow /\ Has(res.body, "errors") /\ Len(res.body.errors) > 0) =>
    ret = Returned(Failure(AuthenticationError(
            [text |-> "Authentication error (${code}): ${message}",
             code |-> res.body.errors[1].code,
             message |-> res.body.errors[1].message])))

\* ------------------------------------------------------------------- C6

\* A leaf the redactor masks holds the placeholder, unless the request holds
\* null or nothing there.
MaskedLeaf(in, out, k) ==
  Leaf(out, k) = IF IsNullish(Leaf(in, k)) THEN Leaf(in, k) ELSE REDACTED

\* Two objects of leaves hold the same value under every key, the masked
\* keys excepted.
SameLeaves(in, out, masked) ==
  \A k \in DOMAIN in \cup DOMAIN out :
    IF k \in masked THEN MaskedLeaf(in, out, k) ELSE Leaf(out, k) = Leaf(in, k)

SettingResponseRedacted(in, out) ==
  \A k \in DOMAIN in \cup DOMAIN out :
    IF k \in LeafKeys THEN Leaf(out, k) = Leaf(in, k)
    ELSE /\ Has(in, k) /\ Has(out, k)
         /\ DOMAIN out[k] = DOMAIN in[k]
         /\ \A d \in DOMAIN in[k] :
              SameLeaves(in[k][d], out[k][d],
                         IF k = "response_data" /\ d = "text_data" THEN {"result"} ELSE {})

InputRedacted(in, out) ==
  \A k \in DOMAIN in \cup DOMAIN out :
    IF k \in LeafKeys THEN Leaf(out, k) = Leaf(in, k)
    ELSE /\ Has(in, k) /\ Has(out, k)
         /\ IF k = "settings_list"
            THEN /\ SameLeaves([j \in DOMAIN in[k] \ {"setting_responses"} |-> in[k][j]],
                               [j \in DOMAIN out[k] \ {"setting_responses"} |-> out[k][j]], {})
                 /\ Has(in[k], "setting_responses") <=> Has(out[k], "setting_responses")
                 /\ Has(in[k], "setting_responses") =>
                      /\ Len(out[k].setting_responses) = Len(in[k].setting_responses)
                      /\ \A j \in 1..Len(in[k].setting_responses) :
                           SettingResponseRedacted(in[k].setting_responses[j],
                                                   out[k].setting_responses[j])
            ELSE SameLeaves(in[k], out[k],
                            CASE k = "enter_password" -> {"password"}
                              [] k = "enter_text" -> {"text"}
                              [] OTHER -> {})

\* out is in with the three kinds of secret replaced by the placeholder and
\* everything else as it was.
RequestRedacted(in, out) ==
  \A k \in DOMAIN in \cup DOMAIN out :
    IF k = "subtask_inputs"
    THEN /\ Has(in, k) /\ Has(out, k)
         /\ Len(out[k]) = Len(in[k])
         /\ \A i \in 1..Len(in[k]) : InputRedacted(in[k][i], out[k][i])
    ELSE IF k \in LeafKeys THEN Leaf(out, k) = Leaf(in, k)
    ELSE Has(in, k) /\ Has(out, k) /\ out[k] = in[k]

Redacted == xpc \notin {"idle", "entry"}

\* C6: in the redactor's output every enter_password.password,
\* enter_text.text and settings_list.setting_responses[*].response_data
\* .text_data.result of the request is replaced by '[REDACTED]', and every
\* other field, key and array position holds the value it holds in the request.
C6_RedactorMasksAndPreserves ==
  Redacted => RequestRedacted(argument, sanitizedPayload)

\* A request with a password in its first input and a free text in its second.
C6_Witness ==
  /\ Redacted
  /\ argument = TwoSecretsRequest
  /\ sanitizedPayload.subtask_inputs[1].enter_password.password = REDACTED
  /\ sanitizedPayload.subtask_inputs[2].enter_text.text = REDACTED
  /\ sanitizedPayload.subtask_inputs[2].enter_text.link = "next_link"

\* ------------------------------------------------------------------- C7

\* C7: the redactor leaves the request it is given unchanged, and every
\* send of the call carries that request, unredacted, as its body.
C7_RedactorIsPure ==
  /\ Redacted => data = argument
  /\ \A i \in 1..Len(CallSends) :
       CallSends[i].fetchParameters.body = JsonStringify(argument)

\* The password request has been sent with the password, and redacted.
C7_Witness ==
  /\ argument = EnterPasswordRequest("LoginEnterPassword", "tok-B", "hunter2")
  /\ Len(CallSends) > 0
  /\ JsonParse(CallSends[1].fetchParameters.body).subtask_inputs[1].enter_password.password = "hunter2"
  /\ sanitizedPayload.subtask_inputs[1].enter_password.password = REDACTED

\* ------------------------------------------------------------------- C8

LineFields ==
  {"text", "call", "url", "stage", "payload", "status", "flowStatus", "suffix", "subtasks"}

\* C8: no line about the request of a call is written before the redacted
\* copy exists; the one payload a line carries is that copy, with every
\* secret of the request masked; the stage and the URL a line carries can be
\* read off the redacted copy; a line carries nothing else of the request.
C8_OnlyRedactedCopyLogged ==
  Len(CallLog) > 0 =>
    /\ Redacted
    /\ \A i \in 1..Len(CallLog) :
         LET l == CallLog[i] IN
           /\ DOMAIN l \subseteq LineFields
           /\ Has(l, "payload") =>
                /\ l.payload = JsonStringify(sanitizedPayload)
                /\ RequestRedacted(argument, JsonParse(l.payload))
           /\ Has(l, "stage") => l.stage = describeFlowStage(sanitizedPayload)
           /\ Has(l, "url") => l.url = TaskUrl(sanitizedPayload)

\* A password request that was rate-limited once and then refused: three
\* lines, the first with the redacted payload.
C8_Witness ==
  /\ EndedOnResponse /\ ~Ok(res) /\ Count429(CallResponses) = 1
  /\ argument = EnterPasswordRequest("LoginEnterPassword", "tok-B", "hunter2")
  /\ Len(CallLog) = 3
  /\ JsonParse(CallLog[1].payload).subtask_inputs[1].enter_password.password = REDACTED

\* ------------------------------------------------------------------- C9

RECURSIVE JsonLeaves(_)
\* The leaf values of a parsed request.
JsonLeaves(o) ==
  UNION { IF k \in LeafKeys THEN {o[k]}
          ELSE IF k \in OpaqueKeys THEN {}
          ELSE IF k \in ArrayKeys THEN UNION {JsonLeaves(o[k][i]) : i \in 1..Len(o[k])}
          ELSE JsonLeaves(o[k]) : k \in DOMAIN o }

\* The values one subtask input holds where the redactor masks.
MaskedValuesOfInput(in) ==
  (IF Has(in, "enter_password") THEN {Leaf(in.enter_password, "password")} ELSE {})
  \cup (IF Has(in, "enter_text") THEN {Leaf(in.enter_text, "text")} ELSE {})
  \cup (IF Has(in, "settings_list") /\ Has(in.settings_list, "setting_responses")
        THEN UNION { IF Has(in.settings_list.setting_responses[j], "response_data")
                        /\ Has(in.settings_list.setting_responses[j].response_data, "text_data")
                     THEN {Leaf(in.settings_list.setting_responses[j].response_data.text_data, "result")}
                     ELSE {} : j \in 1..Len(in.settings_list.setting_responses) }
        ELSE {})

MaskedValues(request) ==
  IF Has(request, "subtask_inputs")
  THEN UNION {MaskedValuesOfInput(request.subtask_inputs[i]) : i \in 1..Len(request.subtask_inputs)}
       \ {Undefined, Null}
  ELSE {}

\* The identifier, password, recovery contact and one-time codes the login
\* has submitted so far.
SubmittedSecrets ==
  UNION {MaskedValues(JsonParse(sends[i].fetchParameters.body)) : i \in 1..Len(sends)}

\* The strings a line is made of: its template, the values interpolated
\* into it and the leaves of its payload.
LineStrings(l) ==
  {l[k] : k \in DOMAIN l \cap {"text", "username", "suffix", "id", "twoFactor", "resultStatus"}}
  \cup (IF Has(l, "payload") THEN JsonLeaves(JsonParse(l.payload)) ELSE {})

\* C9 as stated: no line logged during a login contains a value that the
\* redactor masks in the flow requests of that login: the identifier
\* submitted as the user_identifier setting response, the password, the
\* recovery contact submitted as free text, or the one-time code.
C9_NoSecretInLog ==
  \A i \in 1..Len(log) : LineStrings(log[i]) \cap SubmittedSecrets = {}

\* ------------------------------------------------------------------ C10

Registered(id) == \E k \in 1..Len(registrations) : registrations[k].subtaskId = id

\* The handler of the last registerSubtaskHandler(id, h).
LastRegistered(id) ==
  LET last == CHOOSE k \in 1..Len(registrations) :
                /\ registrations[k].subtaskId = id
                /\ \A j \in (k + 1)..Len(registrations) : registrations[j].subtaskId # id
  IN  registrations[last].handler

RoundsOn(response) ==
  {j \in 1..Len(invocations) : invocations[j].previousResponse = response}

\* C10: registerSubtaskHandler(id, h) sets the registry entry of id to h,
\* whether id had an entry or not, and changes no other entry; a round of a
\* later login whose response has id at its head invokes h, once, and no
\* other handler, the default handler of id included.
C10_RegisteredHandlerIsInvoked ==
  /\ \A k \in 1..Len(registrations) :
       LET r == registrations[k] IN
         /\ DOMAIN r.after = DOMAIN r.before \cup {r.subtaskId}
         /\ r.after[r.subtaskId] = r.handler
         /\ \A id \in DOMAIN r.before \ {r.subtaskId} : r.after[id] = r.before[id]
  /\ \A k \in 1..Len(invocations) :
       Registered(invocations[k].subtaskId) =>
         /\ invocations[k].handler = LastRegistered(invocations[k].subtaskId)
         /\ RoundsOn(invocations[k].previousResponse) = {k}
  /\ (pc \in {"handler", "awaitHandler"} /\ Registered(lastSubtaskId)) =>
       /\ handlerFrame.name = LastRegistered(lastSubtaskId)
       /\ Len(invocations) > 0
       /\ invocations[Len(invocations)].previousResponse = next.response

\* A handler registered for the default id LoginEnterPassword has handled
\* the one round whose response queued that subtask alone, and the login
\* has completed.
C10_Witness ==
  /\ pc = "resolved"
  /\ Len(registrations) > 0
  /\ registrations[1].subtaskId = "LoginEnterPassword"
  /\ registrations[1].before["LoginEnterPassword"] = "handleEnterPassword"
  /\ \E k \in 1..Len(invocations) :
       /\ invocations[k].subtaskId = "LoginEnterPassword"
       /\ Len(invocations[k].previousResponse.subtasks) = 1
       /\ invocations[k].handler = "exampleHandler"
       /\ \A j \in 1..Len(invocations) : invocations[j].handler # "handleEnterPassword"

\* ------------------------------------------------------------------ C11

\* The latest result is a Success whose head subtask the loop has to handle.
HeadOfNext == next.response.subtasks[1].subtask_id
RoundDue == LoopContinues /\ ~IsNullish(Leaf(next.response, "flow_token"))

\* The response that the latest result was made of is the last one received.
NextIsLastResponse ==
  /\ Len(responses) > 0
  /\ responses[Len(responses)].response.body = next.response

\* No request went out after the last response came in.
NothingSentSince ==
  /\ Len(sends) > 0
  /\ sends[Len(sends)].call = responses[Len(responses)].call
  /\ calls = responses[Len(responses)].call

UnknownSubtaskError(id) ==
  Thrown([name |-> "Error", message |-> [text |-> "Unknown subtask ${id}", id |-> id]])

\* C11: once the loop has taken up a Success response whose head subtask id
\* has no registered handler, login has failed with the error 'Unknown
\* subtask <id>' naming that id, no request was sent for that round or after
\* it, and no handler was invoked on that response, neither for the head nor
\* for a subtask queued behind it.
C11_UnknownSubtaskIsFatal ==
  (RoundDue /\ HeadOfNext \notin DOMAIN subtaskHandlers /\ pc # "loop") =>
    /\ pc = "rejected"
    /\ loginResult = UnknownSubtaskError(HeadOfNext)
    /\ NextIsLastResponse
    /\ NothingSentSince
    /\ RoundsOn(next.response) = {}
    /\ xpc = "idle"

\* After one handled round the server queues an unknown subtask with
\* LoginSuccessSubtask behind it; login has failed naming the unknown one.
C11_Witness ==
  /\ pc = "rejected"
  /\ RoundDue
  /\ HeadOfNext = UnknownSubtask
  /\ Len(next.response.subtasks) = 2
  /\ next.response.subtasks[2].subtask_id = "LoginSuccessSubtask"
  /\ Len(invocations) = 1
  /\ loginResult = UnknownSubtaskError(UnknownSubtask)

\* ------------------------------------------------------------------ C12

\* The lines that open a round with a handler, line 321.
HandlingLines == SelectSeq(log, LAMBDA l : Has(l, "id") /\ Has(l, "suffix") /\ ~Has(l, "queued"))

\* The subtask ids a sent request answers.
SentSubtaskIds(send) ==
  LET body == JsonParse(send.fetchParameters.body)
  IN  {body.subtask_inputs[i].subtask_id : i \in 1..Len(body.subtask_inputs)}

\* C12: every handler invocation is for the first subtask of the response
\* that opened its round and runs the handler registered for that id; a
\* response opens at most one invocation, a round holds exactly one, and
\* every request sent after the Init request answers the head subtask of the
\* latest Success response and no subtask queued behind it.
C12_OnlyHeadIsHandled ==
  /\ \A k \in 1..Len(invocations) :
       LET inv == invocations[k] IN
         /\ inv.subtaskId = inv.previousResponse.subtasks[1].subtask_id
         /\ inv.handler = subtaskHandlers[inv.subtaskId]
         /\ RoundsOn(inv.previousResponse) = {k}
  /\ Len(HandlingLines) = Len(invocations)
  /\ \A k \in 1..Len(HandlingLines) : HandlingLines[k].id = invocations[k].subtaskId
  /\ \A i \in 1..Len(sends) :
       IsContinuation(sends[i]) =>
         LET prior == SuccessesBefore(sends[i].call) IN
           /\ Len(prior) > 0
           /\ SentSubtaskIds(sends[i]) = {prior[Len(prior)].response.body.subtasks[1].subtask_id}

\* The first response queued LoginEnterUserIdentifierSSO and, behind it,
\* LoginEnterPassword; the next response did not queue the password
\* subtask, and login completed without its handler ever running.
C12_Witness ==
  /\ pc = "resolved"
  /\ Len(invocations) >= 2
  /\ Len(invocations[1].previousResponse.subtasks) = 2
  /\ invocations[1].subtaskId = "LoginEnterUserIdentifierSSO"
  /\ invocations[1].previousResponse.subtasks[2].subtask_id = "LoginEnterPassword"
  /\ \A k \in 1..Len(invocations) : invocations[k].subtaskId # "LoginEnterPassword"

\* ------------------------------------------------------------------ C13

Terminated == pc \in {"resolved", "rejected"}

QueueLength(flow) == IF Has(flow, "subtasks") THEN Len(flow.subtasks) ELSE 0

\* A scripted run: the default handlers only, no rate limiting, every
\* request answered, and every answer a Success response that exposes
\* exactly one subtask with a default handler; the last answer may instead
\* expose none, which ends the script.
Scripted ==
  /\ registrations = <<>>
  /\ Len(sends) = Len(responses)
  /\ \A i \in 1..Len(responses) :
       LET r == responses[i].response IN
         /\ r.status = 200
         /\ IsSuccessResponse(r)
         /\ QueueLength(r.body) <= 1
         /\ QueueLength(r.body) = 0 => i = Len(responses)
         /\ QueueLength(r.body) = 1 => r.body.subtasks[1].subtask_id \in DefaultSubtaskIds

ContinuationRequests == {i \in 1..Len(sends) : IsContinuation(sends[i])}

\* The requests sent in answer to the subtask of round k.
RequestsOfRound(k) ==
  {i \in ContinuationRequests : SentSubtaskIds(sends[i]) = {invocations[k].subtaskId}}

\* The handler of round k is one that submits the subtask to the server.
RoundSubmits(k) ==
  /\ invocations[k].handler # "handleSuccessSubtask"
  /\ invocations[k].handler = "handleTwoFactorAuthChallenge" =>
       credentials.twoFactorSecret \notin {Undefined, Null, ""}

\* C13 as stated: a scripted login of N rounds has issued exactly N
\* continuation requests when it terminates.
C13_ExactlyOneRequestPerRound ==
  (Terminated /\ Scripted) => Cardinality(ContinuationRequests) = Len(invocations)

\* C13 as amended: in a scripted login no round issues more than one
\* continuation request; a round issues exactly one unless its subtask is
\* LoginSuccessSubtask, or LoginTwoFactorAuthChallenge without a TOTP seed,
\* whose handlers issue none; the requests of a login of N rounds are the
\* requests of its rounds.
C13_AtMostOneRequestPerRound ==
  (Terminated /\ Scripted) =>
    /\ \A k \in 1..Len(invocations) :
         Cardinality(RequestsOfRound(k)) = IF RoundSubmits(k) THEN 1 ELSE 0
    /\ ContinuationRequests = UNION {RequestsOfRound(k) : k \in 1..Len(invocations)}
    /\ Cardinality(ContinuationRequests) =
         Cardinality({k \in 1..Len(invocations) : RoundSubmits(k)})
    /\ Cardinality(ContinuationRequests) <= Len(invocations)

\* Four scripted rounds, the last for LoginSuccessSubtask: three requests.
C13_Witness ==
  /\ pc = "resolved"
  /\ Scripted
  /\ Len(invocations) = 4
  /\ invocations[4].subtaskId = "LoginSuccessSubtask"
  /\ Cardinality(ContinuationRequests) = 3

\* ------------------------------------------------------------------ C14

\* The error login raises for an Error result, lines 341-345.
HasSubtaskContext(error) ==
  /\ Has(error, "name") /\ error.name = "AuthenticationError"
  /\ error.message.text = "Login flow failed after ${id}: ${message}"
  /\ error.message.id = AfterSubtask

\* C14 as stated: every failed login has raised to its caller an
\* AuthenticationError whose message names the subtask, or 'initialization',
\* after which the failure occurred; no failure surfaces as an error of
\* another type or without that context.
C14_FailuresCarrySubtaskContext ==
  pc = "rejected" => (loginResult.kind = "throw" /\ HasSubtaskContext(loginResult.error))

\* ------------------------------------------------------------------ C15

\* The subtask whose handler produced the latest result.
ProducerOfNext ==
  IF Len(invocations) = 0 THEN "initialization"
  ELSE invocations[Len(invocations)].subtaskId

NextIsError == next.status = "error"

\* C15: when the latest result of the loop is an Error, login does nothing
\* but raise an AuthenticationError 'Login flow failed after <id>: <message>'
\* where <id> is the subtask whose handler returned the Error, or
\* 'initialization' when the Init request returned it, and <message> is the
\* message of the Error; from the Error result on no request is sent.
C15_ErrorResultNamesSubtask ==
  /\ [](NextIsError =>
        /\ pc \in {"loop", "rejected"}
        /\ xpc = "idle"
        /\ pc = "rejected" =>
             loginResult = Thrown(AuthenticationError(
               [text |-> "Login flow failed after ${id}: ${message}",
                id |-> ProducerOfNext, message |-> next.err.message])))
  /\ [][NextIsError => (sends' = sends /\ calls' = calls /\ next' = next)]_vars

\* The Init request succeeded, the first handler succeeded, and the request
\* of the second handler was refused with HTTP 403.
C15_Witness ==
  /\ pc = "rejected"
  /\ NextIsError
  /\ next.err.name = "ApiError"
  /\ Len(invocations) = 2
  /\ loginResult.error.message.id = invocations[2].subtaskId
  /\ invocations[2].subtaskId # invocations[1].subtaskId

\* ------------------------------------------------------------------ C16

\* The loop has ended on a Success result with an empty subtask queue.
EndedOnEmptyQueue ==
  /\ Terminated
  /\ next.status = "success"
  /\ QueueLength(next.response) = 0

\* C16 as stated: a login whose loop ends on a Success result with an empty
\* subtask queue completes without raising, and the session is reported
\* authenticated exactly when a login has completed: true after it, not true
\* before it and not true after a failed login.
C16_AuthenticatedIffLoginCompleted ==
  /\ EndedOnEmptyQueue => (pc = "resolved" /\ loginResult = Returned("void"))
  /\ \A i \in 1..Len(verifications) :
       verifications[i].outcome = Returned("true") <=> verifications[i].during = "resolved"

\* ------------------------------------------------------------------ C17

HasSeed == credentials.twoFactorSecret \notin {Undefined, Null, ""}

\* The requests that submitted a code for the two-factor subtask.
TwoFactorSends ==
  {i \in ContinuationRequests : SentSubtaskIds(sends[i]) = {"LoginTwoFactorAuthChallenge"}}

\* The two-factor handler, given a seed, has run in the latest round and
\* has ended.
TwoFactorDone ==
  /\ HasSeed
  /\ lastSubtaskId = "LoginTwoFactorAuthChallenge"
  /\ pc \in {"loop", "resolved", "rejected"}

\* The latest submission failed in the transport: fetch raised, or the
\* answer was not a 2xx response.
SubmissionFailed ==
  \/ ret = Returned(Failure(NetworkError))
  \/ ret = Thrown(NotAnError)
  \/ ret = Returned(Failure(ApiError(res)))

NonDecreasing(seq) == \A i \in 1..(Len(seq) - 1) : seq[i] <= seq[i + 1]

\* C17 as stated: with a seed, the two-factor subtask is submitted again
\* after a submission that failed in the transport, up to three
\* submissions, with non-decreasing delays between them: the handler does
\* not end on a failed submission unless it was the third, and when the
\* first two fail and the third succeeds it has sent exactly three and
\* login goes on to complete.
C17_TwoFailuresThenSuccess ==
  TwoFactorDone =>
    /\ SubmissionFailed => Cardinality(TwoFactorSends) = 3
    /\ Cardinality(TwoFactorSends) <= 3
    /\ NonDecreasing(delays)
    /\ (Cardinality(TwoFactorSends) = 3 /\ ReturnedSuccess) => pc \in {"loop", "resolved"}

\* ------------------------------------------------------------------ C18

\* The number of two-factor submissions made so far.
TwoFactorAttempts == Cardinality(TwoFactorSends)

\* The waits of the two-factor handler so far are 2000, 4000, 6000, ... in
\* that order.
LinearDelays == \A i \in 1..Len(delays) : delays[i] = 2000 * i

NoSecretError ==
  AuthenticationError(
    [text |-> "Two-factor authentication is required but no secret was provided"])

\* The latest round is on the two-factor subtask, handled by the default
\* handler, with credentials that carry no secret.
TwoFactorRoundWithoutSeed ==
  /\ ~HasSeed
  /\ Len(invocations) > 0
  /\ invocations[Len(invocations)].subtaskId = "LoginTwoFactorAuthChallenge"
  /\ invocations[Len(invocations)].handler = "handleTwoFactorAuthChallenge"

\* C19: in a round whose head subtask is LoginTwoFactorAuthChallenge, with
\* credentials without a secret, the default handler returns the Error
\* result 'Two-factor authentication is required but no secret was
\* provided' and sends nothing: the last request sent is the one whose
\* response queued the subtask, and no request carries the two-factor
\* subtask.  Login then raises an AuthenticationError that names the
\* subtask, and does not complete.
C19_NoSeedFailsWithoutSending ==
  TwoFactorRoundWithoutSeed =>
    /\ pc \in {"handler", "loop", "rejected"}
    /\ xpc = "idle"
    /\ TwoFactorSends = {}
    /\ delays = <<>>
    /\ NothingSentSince
    /\ responses[Len(responses)].response.body
          = invocations[Len(invocations)].previousResponse
    /\ pc # "handler" => next = Failure(NoSecretError)
    /\ pc = "rejected" =>
          loginResult = Thrown(AuthenticationError(
            [text |-> "Login flow failed after ${id}: ${message}",
             id |-> "LoginTwoFactorAuthChallenge",
             message |-> NoSecretError.message]))

\* Login was rejected in a two-factor round without a secret.
C19_Witness ==
  /\ TwoFactorRoundWithoutSeed
  /\ pc = "rejected"
  /\ next = Failure(NoSecretError)
  /\ TwoFactorSends = {}

\* ------------------------------------------------------------------ C20

\* The latest round is on LoginSuccessSubtask, handled by the default
\* handler.
SuccessSubtaskRound ==
  /\ Len(invocations) > 0
  /\ invocations[Len(invocations)].subtaskId = "LoginSuccessSubtask"
  /\ invocations[Len(invocations)].handler = "handleSuccessSubtask"

\* The Success result the terminal handler makes of the response that
\* queued LoginSuccessSubtask: that response's flow token, no subtasks.
TerminalResult ==
  Success([flow_token |-> Leaf(invocations[Len(invocations)].previousResponse, "flow_token"),
           status |-> "success",
           subtasks |-> <<>>])

\* C20: in a round whose head subtask is LoginSuccessSubtask the default
\* handler sends nothing (the last request sent is the one whose response
\* queued the subtask) and returns a Success result with no subtasks and
\* the flow token of that response; the next step of login is to complete,
\* with no further round and no request.
C20_SuccessSubtaskEndsLogin ==
  /\ [](SuccessSubtaskRound =>
        /\ pc \in {"handler", "loop", "resolved"}
        /\ xpc = "idle"
        /\ NothingSentSince
        /\ responses[Len(responses)].response.body
              = invocations[Len(invocations)].previousResponse
        /\ pc # "handler" => next = TerminalResult)
  /\ [][(SuccessSubtaskRound /\ pc = "loop") =>
          /\ pc' = "resolved"
          /\ invocations' = invocations
          /\ sends' = sends
          /\ calls' = calls]_vars

\* Login has completed in the round after a password round: the terminal
\* handler ran second and the only continuation request is the password's.
C20_Witness ==
  /\ SuccessSubtaskRound
  /\ pc = "resolved"
  /\ Len(invocations) = 2
  /\ invocations[1].subtaskId = "LoginEnterPassword"
  /\ Cardinality(ContinuationRequests) = 1
  /\ next = TerminalResult

\* ------------------------------------------------------------------ C21

\* The subtasks the server asks for in the scenario, one with each response.
ScenarioScript ==
  <<"LoginJsInstrumentationSubtask", "LoginEnterUserIdentifierSSO",
    "LoginEnterPassword", "LoginSuccessSubtask">>

\* The first n responses received are those of the scenario: each a
\* Success response that queues the one subtask of its place in the script.
ScenarioResponses(n) ==
  /\ Len(responses) = n
  /\ n <= Len(ScenarioScript)
  /\ \A i \in 1..n :
       LET r == responses[i].response IN
         /\ r.status = 200
         /\ IsSuccessResponse(r)
         /\ QueueLength(r.body) = 1
         /\ r.body.subtasks[1].subtask_id = ScenarioScript[i]

\* The whole script has been delivered to a login with the default registry.
ScenarioDelivered ==
  /\ registrations = <<>>
  /\ ScenarioResponses(Len(ScenarioScript))

InvokedSubtaskIds == [k \in 1..Len(invocations) |-> invocations[k].subtaskId]

IsPrefix(s, t) == Len(s) <= Len(t) /\ \A i \in 1..Len(s) : s[i] = t[i]

\* The cookies set by the responses received so far.
ReceivedCookies == UNION {responses[i].response.cookies : i \in 1..Len(responses)}

\* C21: when the server answers the Init request and the three
\* continuation requests with the responses of the scenario, login never
\* raises and always has a next step until it has completed; the handlers
\* invoked are those of the script, in its order, each by its default
\* handler; every response came in answer to a request of its own, and
\* once login has completed the jar holds the cookies of every response
\* received, from the Init response to the last one.
C21_ScenarioCompletes ==
  ScenarioDelivered =>
    /\ pc # "rejected"
    /\ pc # "resolved" => ENABLED <<Next>>_vars
    /\ IsPrefix(InvokedSubtaskIds, ScenarioScript)
    /\ DrivenByDefaults
    /\ Len(sends) = Len(ScenarioScript)
    /\ \A i \in 1..Len(sends) : sends[i].call = i /\ responses[i].call = i
    /\ pc = "resolved" =>
          /\ InvokedSubtaskIds = ScenarioScript
          /\ loginResult = Returned("void")
          /\ \A i \in 1..Len(responses) : responses[i].response.cookies \subseteq jar
          /\ jar = ReceivedCookies

\* The scenario has run to its end: four handlers, four responses, and a
\* jar with the four cookies the responses set.
C21_Witness ==
  /\ ScenarioDelivered
  /\ pc = "resolved"
  /\ InvokedSubtaskIds = ScenarioScript
  /\ Cardinality(jar) = 4

\* ------------------------------------------------------------------ C22

\* A response has been received and the jar has not yet been updated from it.
ResponsePending == xpc = "cookies"

\* The jar holds the cookies set by response i.
JarUpdatedFrom(i) == responses[i].response.cookies \subseteq jar

\* Round k was begun on a response of call k or later, one with a flow
\* token, and the jar holds the cookies of that response; the token of the
\* latest round is the one of its response.
RoundFollowsResponse(k) ==
  \E i \in 1..Len(responses) :
    /\ responses[i].call >= k
    /\ responses[i].response.body = invocations[k].previousResponse
    /\ JarUpdatedFrom(i)
    /\ typeof(Leaf(responses[i].response.body, "flow_token")) = "string"
    /\ (k = Len(invocations) /\ lastSubtaskId = invocations[k].subtaskId) =>
         flowToken = responses[i].response.body.flow_token

\* The state of the call and of the jar with respect to the responses
\* received so far.
JarFollowsResponses ==
  /\ ResponsePending =>
        /\ res = responses[Len(responses)].response
        /\ responses[Len(responses)].call = calls
        /\ sends[Len(sends)].call = calls
        /\ Len(CallSends) = Len(CallResponses)
        /\ Len(CallRateLimits) = Len(CallResponses) - 1
        /\ ret = NoRet
        /\ Len(CallLog) = Len(CallResponses)
        /\ \A i \in 1..(Len(responses) - 1) : JarUpdatedFrom(i)
  /\ ~ResponsePending => \A i \in 1..Len(responses) : JarUpdatedFrom(i)
  /\ \A k \in 1..Len(invocations) : RoundFollowsResponse(k)

\* C22: the first thing executeFlowTask does with a response, whatever its
\* status, is to update the jar from it.  While a response waits for that
\* update, the rate-limit strategy has not been invoked for it, the call
\* has no result and has logged nothing about the response, and the
\* response answers the last request sent; the step taken from there is
\* the update alone.  At every other moment the jar holds the cookies of
\* every response received, so that every later send, strategy invocation
\* and round finds them there, and every round of login was begun on a
\* response from which the jar was updated and the flow token taken.
C22_JarUpdatedFirst ==
  /\ [](JarFollowsResponses)
  /\ [][ResponsePending =>
          /\ jar' = jar \cup res.cookies
          /\ xpc' = "status"
          /\ sends' = sends
          /\ rateLimitCalls' = rateLimitCalls
          /\ log' = log
          /\ ret' = ret
          /\ invocations' = invocations]_vars

\* The jar has been updated from a rate-limited response, from a refused
\* one and from a Success response, over two rounds.
C22_Witness ==
  /\ ~ResponsePending
  /\ Len(invocations) = 2
  /\ \E i, j, k \in 1..Len(responses) :
       /\ responses[i].response.status = 429
       /\ responses[j].response.status = 200
       /\ responses[k].response.status = 403
       /\ responses[i].response.cookies # responses[j].response.cookies
       /\ \A n \in {i, j, k} : responses[n].response.cookies # {} /\ JarUpdatedFrom(n)

\* ------------------------------------------------------------------ C23

\* The Cookie header and the guest token of the first request sent.
FirstCookieHeader == sends[1].fetchParameters.headers["cookie"]
FirstGuestToken == sends[1].fetchParameters.headers["x-guest-token"]

\* The cookies that were loaded into the jar before login.
LoadedCookies == UNION {loads[i] : i \in 1..Len(loads)}

\* What holds of the start of login in every state.
LoginStartsInOrder ==
  /\ pc \in {"idle", "updateGuestToken", "initLogin"} => (sends = <<>> /\ calls = 0)
  /\ pc = "initLogin" => guestToken \in GuestTokens
  /\ Len(sends) > 0 =>
        /\ ~IsContinuation(sends[1])
        /\ FirstGuestToken \in GuestTokens
        /\ FirstCookieHeader \cap LegacyCookies = {}
        /\ FirstCookieHeader = LoadedCookies \ LegacyCookies

\* C23: login refreshes the guest token, then purges the legacy cookie
\* names from the jar, then makes the Init request.  The refresh leaves
\* the jar alone and sends no flow request; the purge takes the legacy
\* names, and only those, out of the jar and comes before the first
\* request; the first request sent is the Init request, it carries the
\* refreshed guest token, and its Cookie header holds the cookies that
\* were in the jar under other names and none under a legacy name.
C23_RefreshPurgeInit ==
  /\ [](LoginStartsInOrder)
  /\ [][pc = "updateGuestToken" =>
          /\ pc' = "initLogin"
          /\ guestToken' \in GuestTokens
          /\ jar' = jar
          /\ sends' = sends
          /\ calls' = calls]_vars
  /\ [][pc = "initLogin" =>
          /\ pc' = "init"
          /\ jar' = jar \ LegacyCookies
          /\ guestToken' = guestToken
          /\ sends' = sends
          /\ calls' = 1
          /\ argument' = InitRequest]_vars

\* Login began with a jar holding legacy and other cookies; the Init
\* request went out with the other cookies only.
C23_Witness ==
  /\ Len(sends) > 0
  /\ LoadedCookies \cap LegacyCookies # {}
  /\ FirstCookieHeader = {"guest_id", "kdt"}
  /\ jar \cap LegacyCookies = {}

\* ------------------------------------------------------------------ C24

\* The call has ended on a network error raised by fetch.
EndedOnNetworkError == xpc = "done" /\ ret = Returned(Failure(NetworkError))

\* The cookies of the responses the call received.
CallCookies == UNION {CallResponses[i].response.cookies : i \in 1..Len(CallResponses)}

\* C24: when fetch raises a network error, on the first send of a call or
\* on a resend after one or more 429 responses, the call returns an Error
\* result with that error: the failed send is the last one of the call,
\* every response of the call is a 429 answered by one invocation of the
\* rate-limit strategy and none is made for the failed send, and the jar is
\* the jar of the start of the call with the cookies of those earlier
\* responses, nothing else.
C24_NetworkErrorReturnsAtOnce ==
  EndedOnNetworkError =>
    /\ ret.result.status = "error"
    /\ ret.result.err = NetworkError
    /\ Len(CallSends) = Len(CallResponses) + 1
    /\ sends[Len(sends)].call = calls
    /\ \A i \in 1..Len(CallResponses) : CallResponses[i].response.status = 429
    /\ Len(CallRateLimits) = Len(CallResponses)
    /\ \A i \in 1..Len(CallRateLimits) :
         CallRateLimits[i].response = CallResponses[i].response
    /\ jar = headers["cookie"] \cup CallCookies

\* The resend after a 429 response failed with a network error.
C24_Witness ==
  /\ EndedOnNetworkError
  /\ Len(CallResponses) = 1
  /\ Len(CallSends) = 2
  /\ CallCookies # {}

\* ------------------------------------------------------------------ C25

\* The call has ended on an instance that holds no guest token.
EndedWithoutToken == xpc = "done" /\ IsNullish(guestToken)

\* C25 as stated: a call made while no guest token is held sends no
\* request, invokes no rate-limit strategy, and ends by returning an Error
\* result that holds an authentication error.
C25_NoTokenIsErrorResult ==
  EndedWithoutToken =>
    /\ sends = <<>>
    /\ rateLimitCalls = <<>>
    /\ ret.kind = "return"
    /\ ret.result.status = "error"
    /\ ret.result.err.name = "AuthenticationError"

\* ------------------------------------------------------------------ C26

\* The verification request failed: it resolved with a failure or raised.
VerificationFailed(v) ==
  \/ Has(v.result, "raised")
  \/ ~v.result.success

\* The verification response carries a non-empty errors array.
VerificationHasErrors(v) ==
  /\ ~VerificationFailed(v)
  /\ Has(v.result.value, "errors")
  /\ Len(v.result.value.errors) > 0

\* C26 as stated: isLoggedIn never raises; it returns false when the
\* verification request fails and when the response carries a non-empty
\* errors array, and the boolean true in every other case.
C26_IsLoggedInNeverRaises ==
  \A i \in 1..Len(verifications) :
    LET v == verifications[i] IN
      /\ v.outcome.kind = "return"
      /\ v.outcome =
           IF VerificationFailed(v) \/ VerificationHasErrors(v)
           THEN Returned("false") ELSE Returned("true")

\* ------------------------------------------------------------------ C27

\* The step is a logout call made while a token is held.
LogoutWithToken == Len(logouts') = Len(logouts) + 1 /\ hasToken

LastLogout == logouts[Len(logouts)]

\* C27: a logout call made while a token is held makes the request to the
\* logout endpoint and, whether that request succeeds, resolves with a
\* failure or raises, ends with no token held and an empty jar and returns
\* normally; no logout call ends by raising.
C27_LogoutAlwaysCleansUp ==
  /\ [](\A i \in 1..Len(logouts) : logouts[i].outcome = Returned("void"))
  /\ []((Len(logouts) > 0 /\ LastLogout.held) => (~hasToken /\ jar = {}))
  /\ [][LogoutWithToken =>
          /\ logouts'[Len(logouts')].held
          /\ logouts'[Len(logouts')].requested
          /\ logouts'[Len(logouts')].endpoint \in LogoutResults
          /\ logouts'[Len(logouts')].outcome = Returned("void")
          /\ guestToken' = Undefined
          /\ jar' = {}]_vars

\* The logout request raised after a completed login that had left cookies
\* in the jar; the token and the cookies are gone all the same.
C27_Witness ==
  /\ Len(logouts) > 0
  /\ LastLogout.held
  /\ LastLogout.during = "resolved"
  /\ LastLogout.endpoint = RequestApiRaised
  /\ LastLogout.jarBefore # {}
  /\ LastLogout.tokenBefore \in GuestTokens
  /\ jar = {}
  /\ guestToken = Undefined

\* ------------------------------------------------------------------ C28

\* The step is a logout call made while no token is held.
LogoutWithoutToken == Len(logouts') = Len(logouts) + 1 /\ ~hasToken

\* C28: a logout call made while no token is held makes no request to the
\* logout endpoint, sends nothing, and leaves the jar with the cookies it
\* holds, the guest token and the handler registry as they were.
C28_LogoutWithoutTokenIsNoOp ==
  [][LogoutWithoutToken =>
       /\ ~logouts'[Len(logouts')].held
       /\ ~logouts'[Len(logouts')].requested
       /\ logouts'[Len(logouts')].outcome = Returned("void")
       /\ jar' = jar
       /\ guestToken' = guestToken
       /\ subtaskHandlers' = subtaskHandlers
       /\ sends' = sends
       /\ calls' = calls
       /\ log' = log]_vars

\* logout was called on an instance without a token whose jar held
\* cookies, and the cookies are still there.
C28_Witness ==
  /\ Len(logouts) > 0
  /\ ~LastLogout.held
  /\ LastLogout.jarBefore = StoredCookies
  /\ jar = StoredCookies
  /\ guestToken = Undefined
  /\ subtaskHandlers = LastLogout.registryBefore

\* ------------------------------------------------------------------ C29

OperationEnded == operation.opc = "ended"

\* isLoggedIn returned false, or the boolean true, to the operation.
FoundLoggedOut == operation.opc # "idle" /\ operation.loggedIn = Returned("false")
FoundLoggedIn == operation.opc # "idle" /\ operation.loggedIn = Returned("true")

\* Nothing is requested before isLoggedIn has answered, and an operation
\* that isLoggedIn answered false has ended with the AuthenticationError of
\* the operation and has requested nothing.
GuardedByIsLoggedIn ==
  /\ operation.opc = "isLoggedIn" => operation.requests = <<>>
  /\ FoundLoggedOut =>
       /\ OperationEnded
       /\ operation.requests = <<>>
       /\ operation.outcome = Thrown(NotLoggedInError(operation.name))
       /\ operation.outcome.error.name = "AuthenticationError"

\* createTweet got a response without errors that holds a tweet result
\* with an identifier, and the result could not be parsed into a tweet.
CreatedTweetUnparsed ==
  /\ operation.name = "createTweet"
  /\ Len(operation.results) > 0
  /\ ~Has(operation.results[1], "raised")
  /\ operation.results[1].success
  /\ CreateTweetStep(operation.results[1].value).opc = "getTweet"

\* C29 as stated: the four operations test isLoggedIn first, raise an
\* AuthenticationError without a request of their own when it is false,
\* and when it is true have made exactly one request, the one of the
\* operation, when they end.
C29_GuardedExactlyOneRequest ==
  /\ GuardedByIsLoggedIn
  /\ (FoundLoggedIn /\ OperationEnded) =>
       /\ Len(operation.requests) = 1
       /\ operation.requests[1] = OperationRequest(operation.name, operation.args)

\* C29, amended: as above, except that createTweet, after its one
\* CreateTweet request, makes one TweetDetail request for the created
\* tweet when and only when the response holds a tweet result with an
\* identifier that could not be parsed into a tweet.
C29_GuardedOneRequestOrDetail ==
  /\ GuardedByIsLoggedIn
  /\ (FoundLoggedIn /\ OperationEnded) =>
       /\ operation.requests[1] = OperationRequest(operation.name, operation.args)
       /\ IF CreatedTweetUnparsed
          THEN /\ Len(operation.requests) = 2
               /\ operation.requests[2] =
                    TweetDetailRequest(TweetId(operation.results[1].value))
          ELSE Len(operation.requests) = 1

\* createTweet has ended after its CreateTweet request and a TweetDetail
\* request that found the created tweet.
C29_Witness ==
  /\ FoundLoggedIn
  /\ OperationEnded
  /\ operation.name = "createTweet"
  /\ Len(operation.requests) = 2
  /\ operation.requests[2].api = "TweetDetail"
  /\ operation.outcome.kind = "return"

\* ------------------------------------------------------------------ C30

\* A two-factor submission has ended and the handler has not yet looked at
\* how.
TwoFactorAttemptEnded == pc = "awaitTwoFactor" /\ xpc = "done"

\* The handler, given a seed, has ended on a submission that returned an
\* Error result: it has sent one submission more than it has waited, so
\* exactly one when it has not waited, and the Error is the result login
\* got from it, so that login does not complete.
ErrorResultEndsHandler ==
  (TwoFactorDone /\ ReturnedError) =>
     /\ TwoFactorAttempts = Len(delays) + 1
     /\ delays = <<>> => TwoFactorAttempts = 1
     /\ next = ret.result
     /\ pc # "resolved"

\* The handler takes a submission that returned an Error result as its
\* answer, without sending again and without waiting, and it waits only
\* after a submission that raised.
ErrorResultIsReturned ==
  /\ (TwoFactorAttemptEnded /\ ReturnedError) =>
        /\ pc' = "loop"
        /\ next' = ret.result
        /\ sends' = sends
        /\ delays' = delays
  /\ (pc # "sleepTwoFactor" /\ pc' = "sleepTwoFactor") =>
        /\ TwoFactorAttemptEnded
        /\ ret.kind = "throw"

\* C30: the two-factor handler tries again only after a submission that
\* raised.  When api.sendFlowRequest returns an Error result (a network
\* error, a response that is not 2xx, a response without a flow token or
\* with remote errors), the handler returns that Error at once, and when
\* this is its first attempt it has sent exactly one submission and has
\* not waited.
C30_ErrorResultIsNotRetried ==
  []ErrorResultEndsHandler /\ [][ErrorResultIsReturned]_vars

\* The first submission met a network error, which executeFlowTask returned
\* as an Error result: one submission, no wait, the Error handed to login,
\* and login rejected.
C30_Witness ==
  /\ TwoFactorDone
  /\ ret = Returned(Failure(NetworkError))
  /\ TwoFactorAttempts = 1
  /\ delays = <<>>
  /\ next = Failure(NetworkError)
  /\ pc = "rejected"

\* ------------------------------------------------------------------ C31

\* The latest FlowResult of login is a Success whose response queues no
\* subtask: the key is missing or the array is empty.
LatestIsSuccessWithoutQueue ==
  /\ next.status = "success"
  /\ QueueLength(next.response) = 0

\* The latest response answers the Init request, is a 2xx response with a
\* flow token and without errors, and queues no subtask.
InitAnsweredWithoutSubtasks ==
  /\ Len(responses) > 0
  /\ Len(sends) > 0
  /\ ~IsContinuation(sends[Len(sends)])
  /\ LET r == responses[Len(responses)].response
     IN  /\ Ok(r)
         /\ ~Has(r.body, "isNull")
         /\ typeof(Leaf(r.body, "flow_token")) = "string"
         /\ ~Has(r.body, "errors")
         /\ QueueLength(r.body) = 0

\* C31: a login that has ended has returned normally exactly when its
\* latest FlowResult is a Success with an empty or absent subtask queue,
\* whichever subtasks were handled before; and a login whose Init response
\* carries a flow token and no subtasks has completed without a round and
\* without a continuation request.
C31_CompletesOnEmptyQueue ==
  /\ pc = "resolved" => loginResult = Returned("void")
  /\ Terminated => (pc = "resolved" <=> LatestIsSuccessWithoutQueue)
  /\ (Terminated /\ InitAnsweredWithoutSubtasks) =>
        /\ pc = "resolved"
        /\ invocations = <<>>
        /\ lastSubtaskId = Null
        /\ ContinuationRequests = {}

\* Login has completed on an Init response that carries a flow token and
\* no subtasks key: no handler ran and only the Init request was sent.
C31_Witness ==
  /\ pc = "resolved"
  /\ InitAnsweredWithoutSubtasks
  /\ ~Has(next.response, "subtasks")
  /\ invocations = <<>>
  /\ ContinuationRequests = {}
  /\ Len(sends) = 1

\* ------------------------------------------------------------------ C32

\* A handler is registered for DenyLoginSubtask.
DenyHandlerRegistered == DenyLoginSubtask \in DOMAIN subtaskHandlers

\* The responses received so far whose body queues DenyLoginSubtask first.
DenyResponses ==
  {i \in 1..Len(responses) :
     /\ Ok(responses[i].response)
     /\ ~Has(responses[i].response.body, "isNull")
     /\ HeadIsDeny(responses[i].response.body)}

\* C32: login never dispatches on DenyLoginSubtask, whether or not a
\* handler is registered for it: no result that reaches the loop is a
\* Success with DenyLoginSubtask at the head of its queue, the loop has
\* looked no handler up for it and has invoked none for it, and a call
\* that ended on a response with DenyLoginSubtask at the head has returned
\* an Error result.
C32_DenyHandlerIsNeverInvoked ==
  /\ next.status = "success" => ~HeadIsDeny(next.response)
  /\ ReturnedSuccess => ~HeadIsDeny(ret.result.response)
  /\ lastSubtaskId # DenyLoginSubtask
  /\ handlerFrame # NoHandler => handlerFrame.subtaskId # DenyLoginSubtask
  /\ \A i \in 1..Len(invocations) : invocations[i].subtaskId # DenyLoginSubtask
  /\ (EndedOnFlow /\ HeadIsDeny(res.body)) => ReturnedError

\* With a handler registered for DenyLoginSubtask, a handler has run and
\* the response to its request queued DenyLoginSubtask first: login was
\* rejected on the Error result and the registered handler was not invoked.
C32_Witness ==
  /\ DenyHandlerRegistered
  /\ DenyResponses # {}
  /\ pc = "rejected"
  /\ Len(invocations) = 1
  /\ invocations[1].subtaskId # DenyLoginSubtask
  /\ next = Failure(AuthenticationError([text |-> "Authentication error: DenyLoginSubtask"]))

\* ------------------------------------------------------------------ C33

\* Each of the eight default subtask ids resolves to a handler.
DefaultsResolve ==
  \A id \in DefaultSubtaskIds :
    /\ id \in DOMAIN subtaskHandlers
    /\ HandlerFor(id) # Undefined

\* No step removes an entry of the registry; the registry changes only in
\* a step that is a registration, and then only in the entry registered;
\* a logout and the end of a login, failed or not, leave it as it is.
RegistryOnlyGrows ==
  /\ DOMAIN subtaskHandlers \subseteq DOMAIN subtaskHandlers'
  /\ subtaskHandlers' # subtaskHandlers =>
        /\ Len(registrations') = Len(registrations) + 1
        /\ LET r == registrations'[Len(registrations')]
           IN  /\ subtaskHandlers' = Spread(subtaskHandlers, r.subtaskId, r.handler)
               /\ logouts' = logouts
               /\ pc' = pc
  /\ logouts' # logouts => subtaskHandlers' = subtaskHandlers
  /\ (pc' \in {"resolved", "rejected"} /\ pc' # pc) => subtaskHandlers' = subtaskHandlers

\* C33: in every state of an instance, after construction and after any
\* registrations, logins and logouts, each of the eight default subtask ids
\* resolves to some handler: entries of the registry are only added or
\* overwritten, never removed, and neither logout nor a failed login
\* resets the registry.
C33_DefaultsAlwaysResolve ==
  []DefaultsResolve /\ [][RegistryOnlyGrows]_vars

\* The default handler of LoginEnterPassword was overwritten, the login
\* failed, and a logout that held a token has cleared the session: the
\* registry holds the eight default ids, the overwritten one included.
C33_Witness ==
  /\ Len(registrations) = 1
  /\ registrations[1].subtaskId = "LoginEnterPassword"
  /\ subtaskHandlers["LoginEnterPassword"] = "exampleHandler"
  /\ pc = "rejected"
  /\ Len(logouts) = 1
  /\ logouts[1].held
  /\ logouts[1].during = "rejected"
  /\ logouts[1].registryBefore = subtaskHandlers
  /\ DefaultsResolve

\* ------------------------------------------------------------------ C34

\* A two-factor submission has raised and the handler has not yet caught it.
TwoFactorAttemptRaised == TwoFactorAttemptEnded /\ ret.kind = "throw"

\* The two-factor handler re-raises in this step.
TwoFactorReRaises == pc = "sleepTwoFactor" /\ pc' = "rejected"

\* The handler has waited once after each raised attempt: while it sleeps
\* and when it has re-raised, it has waited as often as it has submitted.
WaitedAfterEachAttempt ==
  /\ pc = "sleepTwoFactor" => Len(delays) = TwoFactorAttempts
  /\ (TwoFactorDone /\ ret.kind = "throw") =>
        /\ Len(delays) = TwoFactorAttempts
        /\ Len(delays) = 3
        /\ delays[3] = 6000

\* A raised attempt is followed by a wait of 2000 times its number, the
\* third as the first, and before that wait nothing is raised to login;
\* the handler re-raises only from the wait that follows the third attempt,
\* and raises the error of that attempt.
WaitsBeforeReRaise ==
  /\ TwoFactorAttemptRaised =>
        /\ pc' = "sleepTwoFactor"
        /\ delays' = Append(delays, 2000 * TwoFactorAttempts)
        /\ loginResult' = loginResult
        /\ sends' = sends
  /\ TwoFactorReRaises =>
        /\ delays = <<2000, 4000, 6000>>
        /\ delays' = delays
        /\ TwoFactorAttempts = 3
        /\ loginResult' = ret
        /\ sends' = sends

\* C34: when all three two-factor submissions raise, the handler has
\* waited after each of them, after the third and last too (2000, 4000 and
\* 6000), before it re-raises; the wait after the last attempt is not
\* skipped although no attempt follows it.
C34_WaitsAfterLastAttempt ==
  []WaitedAfterEachAttempt /\ [][WaitsBeforeReRaise]_vars

\* The third attempt has raised and the handler is in the wait of 6000 that
\* follows it: three submissions, three waits, nothing raised to login yet.
C34_Witness ==
  /\ pc = "sleepTwoFactor"
  /\ handlerFrame.attempts = 3
  /\ TwoFactorAttempts = 3
  /\ delays = <<2000, 4000, 6000>>
  /\ ret.kind = "throw"
  /\ loginResult = NoRet

\* ------------------------------------------------------------------ C35

\* The attempts that were called on instance i.
AttemptsOn(i) == {a \in LoginAttempts : Attempt(a).on = i}

\* The attempts whose responses set the cookies of a jar.
CookieWriters(cookieJar) == {cookieJar[n] : n \in DOMAIN cookieJar}

\* Every continuation request of an attempt carries the flow token of the
\* response that opened its round: the response to the attempt's own
\* previous request, whatever another login received in between.
OwnRoundFlowToken ==
  \A a \in LoginAttempts :
    \A j \in 2..Len(Attempt(a).sent) :
      /\ Attempt(a).sent[j].body.flow_token
           = Attempt(a).received[j - 1].response.body.flow_token
      /\ Attempt(a).sent[j].body.flow_token = IssuedFlowToken(a, j - 1)
      /\ Attempt(a).sent[j].body.flow_token = Attempt(a).rounds[j - 1].flowToken

\* The guest token and the cookies of a request, and the guest token, the
\* jar and the registry of an instance, come from the logins and the
\* registration made on that instance and from no other: on an instance
\* that two logins share, from either of them.
InstanceStateIsItsOwn ==
  /\ \A a \in LoginAttempts :
       /\ \A j \in 1..Len(Attempt(a).sent) :
            /\ Attempt(a).sent[j].guest
                 \in {IssuedGuestToken(b) : b \in AttemptsOn(Attempt(a).on)}
            /\ CookieWriters(Attempt(a).sent[j].cookies) \subseteq AttemptsOn(Attempt(a).on)
       /\ \A k \in 1..Len(Attempt(a).rounds) :
            /\ Attempt(a).rounds[k].handler
                 = Attempt(a).rounds[k].registry[Attempt(a).rounds[k].subtaskId]
            /\ Attempt(a).rounds[k].registry
                 \in {initializeDefaultHandlers, InstanceOf(a).subtaskHandlers}
  /\ \A i \in LoginInstances :
       /\ logins.instance[i].guestToken
            \in {Undefined} \cup {IssuedGuestToken(b) : b \in AttemptsOn(i)}
       /\ CookieWriters(logins.instance[i].jar) \subseteq AttemptsOn(i)

\* A step changes the guest token or the jar of an instance only when it
\* is a step of a login that runs on that instance, and no step of a login
\* changes a registry.
InstancesKeptApart ==
  \A i \in LoginInstances :
    /\ (\/ logins'.instance[i].guestToken # logins.instance[i].guestToken
        \/ logins'.instance[i].jar # logins.instance[i].jar) =>
          \E a \in LoginAttempts :
            /\ Attempt(a).on = i
            /\ logins'.attempt[a] # logins.attempt[a]
    /\ logins'.instance[i].subtaskHandlers # logins.instance[i].subtaskHandlers =>
          logins'.attempt = logins.attempt

\* C35: when two logins interleave on one instance, every continuation
\* request still carries the flow token of the response that opened the
\* round of its own login, the flow token being a constant of the round
\* and not a field of the instance, while the guest token and the cookie
\* jar are the instance's and are written by both logins; two logins on
\* distinct instances never read or write each other's jar, guest token or
\* registry.
C35_FlowTokenPerRoundStateShared ==
  [](OwnRoundFlowToken /\ InstanceStateIsItsOwn) /\ [][InstancesKeptApart]_vars

\* Two logins on the first instance: the second request of the first login
\* carries its own flow token, the guest token that was issued to the
\* second login, and a cookie that a response to the second login set.
C35_Witness ==
  /\ Attempt(1).on = "first"
  /\ Attempt(2).on = "first"
  /\ Len(Attempt(1).sent) >= 2
  /\ Attempt(1).sent[2].body.flow_token = IssuedFlowToken(1, 1)
  /\ Attempt(1).sent[2].guest = IssuedGuestToken(2)
  /\ Has(Attempt(1).sent[2].cookies, "ct0")
  /\ Attempt(1).sent[2].cookies["ct0"] = 2

\* ------------------------------------------------------------------ C36

\* Both searches have returned.
BothSearched == search.one # NoRet /\ search.many # NoRet

\* The query holds of the tweet: the partial tweet matches it, or the
\* predicate gives true for it, at once or as what its promise resolves to.
QueryHolds(tweet) ==
  IF isCallback(search.query) THEN tweet.id \in search.query.accepts
  ELSE checkTweetMatches(tweet, search.query).value

\* C36: getTweetsWhere returns, in iteration order, exactly the tweets for
\* which the query holds, under the matching rule of getTweetWhere: for
\* every tweet sequence and every query, partial tweet, synchronous or
\* asynchronous predicate, the first element of its result is the result
\* of getTweetWhere (an empty result going with null), and no tweet for
\* which the predicate resolves to false is in the result.
C36_TweetsWhereAgreesWithTweetWhere ==
  BothSearched =>
    /\ search.many.result = SelectSeq(search.tweets, QueryHolds)
    /\ IF search.many.result = <<>> THEN search.one.result = NullTweet
       ELSE search.one.result = search.many.result[1]
    /\ \A i \in 1..Len(search.many.result) : QueryHolds(search.many.result[i])

====
